---- MODULE Spec2Model ----
(***************************************************************************)
(* Model of the Outscale docker-machine driver (driver/outscale/           *)
(* amazonec2.go): the Driver record, the remote provider it automates,     *)
(* and the Create / Remove / security-group reconciliation handlers, one   *)
(* action per remote call or local step of the Go code.                    *)
(*                                                                         *)
(* Specifications                                                          *)
(*  - Spec: Create and Remove; SpecLive: the same with a fair driver;      *)
(*  - SpecSG: the security-group reconciliation, run repeatedly;           *)
(*  - SpecQuery: GetIP, GetState, GetURL, Start, Stop, Restart and Kill    *)
(*    on a machine created earlier;                                        *)
(*  - SpecLaunch: the RunInstances and CreateTags requests for bounded     *)
(*    tag texts and image mappings;                                        *)
(*  - SpecProcess: SetConfigFromFlags on two Drivers of one process.       *)
(*                                                                         *)
(* Conventions                                                             *)
(*  - a Go string is a sequence of one-character strings, "" is << >>;     *)
(*  - a Go error is a sequence of message segments, nil is << >>;          *)
(*  - an instance id / allocation id is a number, 0 stands for "";         *)
(*  - every remote call answers with success or with an error; a describe  *)
(*    by id of an id the provider does not know answers with an error.     *)
(***************************************************************************)
EXTENDS Integers, Sequences, FiniteSets, TLC

\* ------------------------------------------------------------------ bounds
\* Attempt budget of mcnutils.WaitFor (60 in libmachine), kept small.
WaitMaxAttempts == 2
\* Number of times Create is invoked on one Driver.
MaxCreates == 1
\* Number of times configureSecurityGroups is run against one provider.
MaxRuns == 2
\* most comma-separated tokens of a --outscale-tags text
MaxTokens == 4
\* most block device mappings of an image
MaxMappings == 2

\* ------------------------------------------------------- program constants
dockerPort == 2376
kubeApiPort == 6443
httpPort == 80
httpsPort == 443
nodeExporter == 9796
calicoPort == 179
etcdPorts == <<2379, 2380>>
vxlanPorts == <<4789, 4789>>
flannelPorts == <<8472, 8472>>
otherKubePorts == <<10250, 10252>>
kubeProxyPorts == <<10256, 10256>>
nodePorts == <<30000, 32767>>
machineSecurityGroupName == "rancher-nodes"
machineTag == "rancher-nodes"
defaultSecurityGroup == machineSecurityGroupName
defaultRootSize == 30
defaultVolumeType == "gp2"

\* ------------------------------------------------------------------ strings
Range(s) == {s[i] : i \in DOMAIN s}

TCP == <<"t", "c", "p">>
UDP == <<"u", "d", "p">>

Digits == <<"0", "1", "2", "3", "4", "5", "6", "7", "8", "9">>

IsDigit(c) == \E i \in DOMAIN Digits : Digits[i] = c

DigitVal(c) == (CHOOSE i \in DOMAIN Digits : Digits[i] = c) - 1

RECURSIVE DigitsValue(_)
DigitsValue(s) ==
    IF s = << >> THEN 0
    ELSE 10 * DigitsValue(SubSeq(s, 1, Len(s) - 1)) + DigitVal(s[Len(s)])

\* strconv.ParseInt(port, 10, 0): an optional sign, then one or more digits.
ParseInt(s) ==
    LET signed == Len(s) > 0 /\ s[1] \in {"+", "-"}
        body == IF signed THEN Tail(s) ELSE s
    IN  IF Len(body) > 0 /\ \A i \in DOMAIN body : IsDigit(body[i])
        THEN [ok |-> TRUE,
              val |-> IF signed /\ s[1] = "-" THEN 0 - DigitsValue(body)
                      ELSE DigitsValue(body)]
        ELSE [ok |-> FALSE, val |-> 0]

\* fmt.Sprintf("%d", n)
RECURSIVE FormatNat(_)
FormatNat(n) ==
    IF n < 10 THEN <<Digits[n + 1]>>
    ELSE FormatNat(n \div 10) \o <<Digits[(n % 10) + 1]>>

FormatInt(n) == IF n < 0 THEN <<"-">> \o FormatNat(0 - n) ELSE FormatNat(n)

\* strings.IndexByte(s, c): 0-based index of the first c, -1 when absent.
IndexByte(s, c) ==
    IF \E i \in DOMAIN s : s[i] = c
    THEN (CHOOSE i \in DOMAIN s : s[i] = c /\ \A j \in 1..(i - 1) : s[j] # c) - 1
    ELSE 0 - 1

\* driverutil.SplitPortProto: "port[/protocol]", protocol tcp when omitted.
SplitPortProto(raw) ==
    LET i == IndexByte(raw, "/")
    IN  IF i < 0 THEN [port |-> raw, proto |-> TCP]
        ELSE [port |-> SubSeq(raw, 1, i), proto |-> SubSeq(raw, i + 2, Len(raw))]

\* ------------------------------------------------------------------- errors
Nil == << >>

\* fmt.Errorf(prefix + "%s", err)
Wrap(prefix, err) == <<prefix>> \o err

\* strings.HasPrefix(err.Error(), p), at message-segment granularity
HasPrefix(err, p) == Len(err) > 0 /\ err[1] = p

\* strings.Contains(err.Error(), p), at message-segment granularity
Contains(err, p) == \E i \in DOMAIN err : err[i] = p

ErrRequest(call) == <<"RequestError", ": ", call, " failed">>
ErrInstanceNotFound == <<"InvalidInstanceID.NotFound", ": the instance ID does not exist">>
ErrUnknownInstance == <<"unknown instance", ": i-0">>
ErrMalformedId == <<"InvalidInstanceID.Malformed", ": invalid id: \"\"">>
ErrGroupDuplicate == <<"InvalidGroup.Duplicate", ": the security group ", "already exists">>
ErrPermissionDuplicate == <<"InvalidPermission.Duplicate", ": the specified rule ", "already exists">>
ErrTagDuplicate == <<"TagAlreadyExists", ": the tag ", "already exists">>
ErrKeyDuplicate == <<"InvalidKeyPair.Duplicate", ": the keypair already exists">>
ErrLocalIO == <<"open: no such file or directory">>
ErrWaitTimeout == <<"Maximum number of retries (60) exceeded">>
errorReadingUserData == <<"unable to read --outscale-userdata file">>
ErrCantFindGroup == <<"can't find security group">>

\* ------------------------------------------- security-group permission diff
AnySource == "0.0.0.0/0"
SelfSource == "self"

Perm(proto, from, to, src) ==
    [IpProtocol |-> proto, FromPort |-> from, ToPort |-> to, Source |-> src]

\* key of an existing permission: fmt.Sprintf("%d/%s", *p.FromPort, *p.IpProtocol)
PermKey(p) == <<FormatInt(p.FromPort), p.IpProtocol>>

\* key a built-in rule is looked up under: fmt.Sprintf("%d/tcp", port)
PortKey(port, proto) == <<FormatInt(port), proto>>

hasPortsInbound(group) == {PermKey(p) : p \in group.IpPermissions}

\* a tag lookup that finds every key
hasTagKeyAny(tags, key) == TRUE

hasTagKey(tags, key) == key \in tags

\* the two rules every group needs
BasePerms == <<Perm(TCP, 22, 22, AnySource),
               Perm(TCP, dockerPort, dockerPort, AnySource)>>

\* the rules of the tagged default group, in the order of the code
ClusterPerms ==
    <<Perm(TCP, kubeApiPort, kubeApiPort, AnySource),
      Perm(TCP, etcdPorts[1], etcdPorts[2], SelfSource),
      Perm(UDP, vxlanPorts[1], vxlanPorts[2], SelfSource),
      Perm(UDP, flannelPorts[1], flannelPorts[2], SelfSource),
      Perm(TCP, otherKubePorts[1], otherKubePorts[2], SelfSource),
      Perm(TCP, kubeProxyPorts[1], kubeProxyPorts[2], SelfSource),
      Perm(TCP, nodeExporter, nodeExporter, SelfSource),
      Perm(TCP, nodePorts[1], nodePorts[2], AnySource),
      Perm(UDP, nodePorts[1], nodePorts[2], AnySource),
      Perm(TCP, httpPort, httpPort, AnySource),
      Perm(TCP, httpsPort, httpsPort, AnySource),
      Perm(TCP, calicoPort, calicoPort, SelfSource)>>

\* a built-in rule is appended when its "%d/proto" key is not yet present
MissingBuiltin(has, rules) ==
    SelectSeq(rules, LAMBDA p : PortKey(p.FromPort, p.IpProtocol) \notin has)

\* the loop over d.OpenPorts: stops at the first unparsable port; a port is
\* looked up under the key "%s/%s" of its raw text and protocol
RECURSIVE OpenPortPerms(_, _)
OpenPortPerms(has, ports) ==
    IF ports = << >> THEN [err |-> Nil, perms |-> << >>]
    ELSE LET sp == SplitPortProto(Head(ports))
             n == ParseInt(sp.port)
         IN  IF ~n.ok
             THEN [err |-> <<"invalid port number ">> \o sp.port, perms |-> << >>]
             ELSE LET rest == OpenPortPerms(has, Tail(ports))
                      mine == IF <<sp.port, sp.proto>> \notin has
                              THEN <<Perm(sp.proto, n.val, n.val, AnySource)>>
                              ELSE << >>
                  IN  IF rest.err # Nil THEN rest
                      ELSE [err |-> Nil, perms |-> mine \o rest.perms]

configureSecurityGroupPermissions(group, openPorts) ==
    LET has == hasPortsInbound(group)
        base == MissingBuiltin(has, BasePerms)
        cluster == IF group.GroupName = defaultSecurityGroup
                      /\ hasTagKey(group.Tags, machineSecurityGroupName)
                   THEN MissingBuiltin(has, ClusterPerms)
                   ELSE << >>
        open == OpenPortPerms(has, openPorts)
    IN  IF open.err # Nil THEN [err |-> open.err, perms |-> << >>]
        ELSE [err |-> Nil, perms |-> base \o cluster \o open.perms]

\* -------------------------------------------------------------------- state
VARIABLES
    cfg,        \* the provisioning configuration set by SetConfigFromFlags
    d,          \* the Driver fields that Create and Remove write
    keys,       \* provider: names of the key pairs it holds
    instances,  \* provider: sequence of instance records, index = instance id
    addrs,      \* provider: sequence of elastic IPs, index = allocation id
    groups,     \* provider: security group of each name in the VPC
    pc,         \* position of the driver's single thread of control
    op,         \* the top-level operation in progress or last finished
    attempts,   \* attempts used by the mcnutils.WaitFor in progress
    calls,      \* remote calls issued since the top-level operation began
    errs,       \* multierr.Errs of the Remove in progress
    innerErr,   \* what innerCreate returned to Create
    createRet,  \* what the last Create returned
    removeRet,  \* what the last Remove returned
    sgRet,      \* what the last configureSecurityGroups returned
    sg,         \* locals of configureSecurityGroups
    kp,         \* local of deleteKeyPair: instance.KeyName
    ops,        \* number of Create invocations begun
    fresh,      \* no Create has succeeded and no explicit Remove has begun
    runWait,    \* result of waitForInstance in the current Create
    stepLog,    \* the steps the Remove in progress has run, with their results
    query,      \* what the last GetIP, GetState or GetURL call, or the last Start,
                \* Stop, Kill or Restart, of the host tool saw at the provider
                \* and returned
    launch,     \* the launch options outside cfg: d.Tags (with the tokens the
                \* text was written from), d.DeviceName, d.RootSize,
                \* d.VolumeType, and d.bdmList as checkAMI stored it
    req,        \* the parameters built for the provider: the Tags of the
                \* CreateTags request, the BlockDeviceMappings of RunInstances
    swarmPort,  \* the package-level variable of that name
    drivers,    \* the Drivers of one process whose flags are being applied
    hist        \* security-group reconciliations: whether one returned nil, the
                \* rules submitted so far, and what the provider held when the
                \* one in progress began

vars == <<cfg, query, launch, req, swarmPort, drivers, d, keys, instances, addrs, groups, pc, op, attempts, calls, errs,
          innerErr, createRet, removeRet, sgRet, sg, kp, ops, fresh, runWait, stepLog, hist>>

provider == <<keys, instances, addrs, groups>>

\* ------------------------------------------------------------ configuration
MachineNames == {<<"c", "-", "n">>, <<"n">>}
UserKeyName == <<"u", "k">>
KeySuffixes == {<<"a">>, <<"b">>}
GroupNames == {defaultSecurityGroup, "custom"}

Config(m, k, s, p, u, md, uf, g, o) ==
    [MachineName |-> m, KeyPairName |-> k, SSHPrivateKeyPath |-> s,
     PrivateIPOnly |-> p, UsePrivateIP |-> u, Metadata |-> md,
     UserDataFile |-> uf, SecurityGroupNames |-> g, OpenPorts |-> o]

\* raw --outscale-open-port values
Port080 == <<"0", "8", "0">>
Port80tcp == <<"8", "0", "/", "t", "c", "p">>
Port22 == <<"2", "2">>
Port53udp == <<"5", "3", "/", "u", "d", "p">>
PortBad == <<"8", "0", "a">>

AllConfigs ==
    {Config(m, k, s, p, u, md, uf, g, o) :
        m \in MachineNames, k \in {Nil, UserKeyName}, s \in BOOLEAN,
        p \in BOOLEAN, u \in BOOLEAN, md \in BOOLEAN,
        uf \in {"none", "readable", "unreadable"},
        g \in {<< >>, <<defaultSecurityGroup>>},
        o \in {<< >>, <<PortBad>>}}

\* how many options of a configuration differ from the plain one, the keys aside
Departures(c) ==
    Cardinality({x \in {"m", "p", "u", "md", "uf", "g", "o"} :
        \/ x = "m" /\ c.MachineName # <<"c", "-", "n">>
        \/ x = "p" /\ c.PrivateIPOnly
        \/ x = "u" /\ c.UsePrivateIP
        \/ x = "md" /\ c.Metadata
        \/ x = "uf" /\ c.UserDataFile # "none"
        \/ x = "g" /\ c.SecurityGroupNames # << >> /\ c.OpenPorts = << >>
        \/ x = "o" /\ c.OpenPorts # << >>})

\* every key-pair setting, with at most one other option changed at a time
\* (open ports count with the security group they are opened in);
\* SetConfigFromFlags (lines 356-358): a key-pair name requires a private-key path
Configs ==
    {c \in AllConfigs :
        /\ c.KeyPairName # Nil => c.SSHPrivateKeyPath
        /\ c.OpenPorts # << >> => c.SecurityGroupNames # << >>
        /\ Departures(c) <= 1}

NoGroup == [GroupId |-> Nil, GroupName |-> "", Tags |-> {}, IpPermissions |-> {}]
NoRet == [done |-> FALSE, isNil |-> TRUE, err |-> Nil]
NoRemoveRet == [done |-> FALSE, isNil |-> TRUE, Errs |-> << >>]
NoHist == [done |-> FALSE, submitted |-> [n \in GroupNames |-> {}], covered |-> FALSE]
NoInst == [PrivateIpAddress |-> Nil, PublicIpAddress |-> Nil, State |-> "none", KeyName |-> Nil]
NoQuery == [op |-> "none", descErr |-> Nil, described |-> NoInst, ip |-> Nil,
            state |-> "none", err |-> Nil, url |-> Nil]

\* the launch options of a host created with the defaults and no image read
NoLaunch == [Tags |-> << >>, tokens |-> << >>, DeviceName |-> "", RootSize |-> 0,
             VolumeType |-> "", bdmList |-> << >>]
NoReq == [op |-> "none", Tags |-> << >>, warned |-> FALSE, BlockDeviceMappings |-> << >>]
NoDrivers == << >>
NoSg == [idx |-> 1, byName |-> [n \in GroupNames |-> NoGroup], found |-> {},
         group |-> NoGroup, perms |-> << >>]

\* the Driver after SetConfigFromFlags (lines 348-349 set KeyName, ExistingKey)
NewDriver(c) ==
    [KeyName |-> c.KeyPairName, ExistingKey |-> c.KeyPairName # Nil,
     InstanceId |-> 0, AllocationId |-> 0, PublicIp |-> Nil, IPAddress |-> Nil,
     PrivateIPAddress |-> Nil, SecurityGroupIds |-> << >>]

InitWith(c) ==
    /\ cfg = c
    /\ d = NewDriver(c)
    /\ keys = IF c.KeyPairName # Nil THEN {c.KeyPairName} ELSE {}
    /\ instances = << >>
    /\ addrs = << >>
    /\ groups = [n \in GroupNames |-> [exists |-> FALSE, Tags |-> {}, IpPermissions |-> {}]]
    /\ pc = "idle"
    /\ op = "none"
    /\ attempts = 0
    /\ calls = << >>
    /\ errs = << >>
    /\ innerErr = Nil
    /\ createRet = NoRet
    /\ removeRet = NoRemoveRet
    /\ sgRet = NoRet
    /\ sg = NoSg
    /\ kp = Nil
    /\ ops = 0
    /\ fresh = TRUE
    /\ runWait = "none"
    /\ stepLog = << >>
    /\ hist = NoHist
    /\ query = NoQuery
    /\ launch = NoLaunch
    /\ req = NoReq
    /\ swarmPort = 3376
    /\ drivers = NoDrivers

Init == \E c \in Configs : InitWith(c)

\* ----------------------------------------------------------------- provider
Describable(id) ==
    /\ id \in DOMAIN instances
    /\ instances[id].State # "gone"

\* answers DescribeInstances can give for an instance id
DescribeInstancesAnswers(id) == IF Describable(id) THEN {"ok", "err"} ELSE {"err"}

DescribeInstancesErr(id) ==
    IF Describable(id) THEN ErrRequest("DescribeInstances")
    ELSE IF id = 0 THEN ErrMalformedId ELSE ErrInstanceNotFound

\* the provider moves the driver's instance on before a call that observes
\* it: it boots, it finishes shutting down, and a terminated instance is
\* eventually forgotten
ProviderProgress ==
    /\ pc \in {"waitRunning", "associate", "waitIp", "terminate", "deleteKeyPair",
              "startWait"}
    /\ d.InstanceId \in DOMAIN instances
    /\ \E s \in {"running", "terminated", "gone"} :
          /\ \/ instances[d.InstanceId].State = "pending" /\ s = "running"
             \/ instances[d.InstanceId].State = "shutting-down" /\ s = "terminated"
             \/ instances[d.InstanceId].State = "terminated" /\ s = "gone"
          /\ instances' = [instances EXCEPT ![d.InstanceId].State = s]
    /\ UNCHANGED <<cfg, query, launch, req, swarmPort, drivers, d, keys, addrs, groups, pc, op, attempts, calls, errs,
                   innerErr, createRet, removeRet, sgRet, sg, kp, ops, fresh, runWait, stepLog, hist>>

\* another managed host creates a group of the shared VPC, before the lookup
\* or between the lookup and CreateSecurityGroup
PeerCreatesGroup ==
    /\ pc \in {"configureSecurityGroups", "sgCreate"}
    /\ \E n \in Range(cfg.SecurityGroupNames) :
          /\ ~groups[n].exists
          /\ groups' = [groups EXCEPT ![n].exists = TRUE]
    /\ UNCHANGED <<cfg, query, launch, req, swarmPort, drivers, d, keys, instances, addrs, pc, op, attempts, calls, errs,
                   innerErr, createRet, removeRet, sgRet, sg, kp, ops, fresh, runWait, stepLog, hist>>

\* another managed host, reconciling the same group, authorizes the ssh and
\* docker rules between this host's diff and its authorization
PeerAuthorizesRules ==
    /\ pc = "sgAuthorize"
    /\ LET name == cfg.SecurityGroupNames[sg.idx]
       IN  /\ groups[name].exists
           /\ ~(Range(BasePerms) \subseteq groups[name].IpPermissions)
           /\ groups' = [groups EXCEPT ![name].IpPermissions = @ \cup Range(BasePerms)]
    /\ UNCHANGED <<cfg, query, launch, req, swarmPort, drivers, d, keys, instances, addrs, pc, op, attempts, calls, errs,
                   innerErr, createRet, removeRet, sgRet, sg, kp, ops, fresh, runWait, stepLog, hist>>

\* ----------------------------------------------------------- shared helpers
GroupId(name) == <<"sg-", name>>

\* the ec2.SecurityGroup a DescribeSecurityGroups answer carries for a name
DescribedGroup(name) ==
    [GroupId |-> GroupId(name), GroupName |-> name, Tags |-> groups[name].Tags,
     IpPermissions |-> groups[name].IpPermissions]

PublicIpOf(alloc) == <<"eip", alloc>>
PrivateIpOf(id) == <<"priv", id>>

\* the log of remote calls; a run of polls of one wait is logged once
Log(call) == IF calls # << >> /\ calls[Len(calls)] = call THEN calls ELSE Append(calls, call)

Ret(err) == [done |-> TRUE, isNil |-> err = Nil, err |-> err]

\* an earlier reconciliation returned nil and the provider reports every
\* configured group with all the rules submitted for it so far
Covered ==
    /\ hist.done
    /\ \A n \in Range(cfg.SecurityGroupNames) :
          groups[n].exists /\ hist.submitted[n] \subseteq groups[n].IpPermissions

\* -------------------------------------------------------------------- Create
\* Create is entered; PreCreateCheck has already been called
Create ==
    /\ pc = "idle"
    /\ ops < MaxCreates
    /\ fresh
    /\ pc' = "createKeyPair"
    /\ op' = "Create"
    /\ ops' = ops + 1
    /\ calls' = << >>
    /\ errs' = << >>
    /\ innerErr' = Nil
    /\ createRet' = NoRet
    /\ removeRet' = NoRemoveRet
    /\ sgRet' = NoRet
    /\ runWait' = "none"
    /\ attempts' = 0
    /\ stepLog' = << >>
    /\ hist' = [hist EXCEPT !.covered = Covered]
    /\ UNCHANGED <<cfg, query, launch, req, swarmPort, drivers, d, keys, instances, addrs, groups, sg, kp, fresh>>

\* a Create that returns innerCreate's error without calling Remove
CreateFailedNoCleanup ==
    /\ pc = "createFailed"
    /\ pc' = "createReturn"
    /\ UNCHANGED <<cfg, query, launch, req, swarmPort, drivers, d, keys, instances, addrs, groups, op, attempts, calls, errs,
                   innerErr, createRet, removeRet, sgRet, sg, kp, ops, fresh, runWait, stepLog, hist>>

\* innerCreate returned err: Create calls d.Remove() before it returns
CreateFailed ==
    /\ pc = "createFailed"
    /\ pc' = "terminate"
    /\ errs' = << >>
    /\ UNCHANGED <<cfg, query, launch, req, swarmPort, drivers, d, keys, instances, addrs, groups, op, attempts, calls,
                   innerErr, createRet, removeRet, sgRet, sg, kp, ops, fresh, runWait, stepLog, hist>>

\* the error Create returns, given innerCreate's error and what Remove
\* returned: Remove's result is dropped
CreateError(inner, removed) == inner

\* Create returns: nil when innerCreate returned nil, its error otherwise
CreateReturn ==
    /\ pc = "createReturn"
    /\ createRet' = Ret(IF innerErr = Nil THEN Nil ELSE CreateError(innerErr, removeRet))
    /\ fresh' = (innerErr # Nil)
    /\ pc' = "idle"
    /\ UNCHANGED <<cfg, query, launch, req, swarmPort, drivers, d, keys, instances, addrs, groups, op, attempts, calls, errs,
                   innerErr, removeRet, sgRet, sg, kp, ops, runWait, stepLog, hist>>

\* innerCreate returns err (to Create's error branch)
InnerFail(err) ==
    /\ innerErr' = err
    /\ pc' = "createFailed"

\* a key-pair name that is never taken as an existing one
UsesExistingKeyPairNever(path, keyName) == FALSE

\* createKeyPair's early return: a private-key path was given and a key-pair
\* name is set, so the remote key pair exists already
UsesExistingKeyPair(path, keyName) == path /\ keyName # Nil

\* createKeyPair up to the ImportKeyPair call: key generation or copy, the
\* early return for an existing key pair, reading the public key
createKeyPairLocal ==
    /\ pc = "createKeyPair"
    /\ \E io \in {"ok", "err"} :
          IF io = "err"
          THEN InnerFail(Wrap("unable to create key pair: ", ErrLocalIO))
          ELSE /\ pc' = IF UsesExistingKeyPair(cfg.SSHPrivateKeyPath, d.KeyName)
                        THEN "configureSecurityGroups" ELSE "importKeyPair"
               /\ UNCHANGED innerErr
    /\ UNCHANGED <<cfg, query, launch, req, swarmPort, drivers, d, keys, instances, addrs, groups, op, attempts, calls, errs,
                   createRet, removeRet, sgRet, sg, kp, ops, fresh, runWait, stepLog, hist>>

\* the random suffix: one the provider holds no key of (the first such stands
\* for them all), or one that collides with a key it holds
SuffixChoices ==
    LET used == {b \in KeySuffixes : cfg.MachineName \o <<"-">> \o b \in keys}
        free == KeySuffixes \ used
    IN  used \cup (IF free = {} THEN {} ELSE {CHOOSE b \in free : TRUE})

\* createKeyPair: the ImportKeyPair call under a name MachineName-<random>
ImportKeyPair ==
    /\ pc = "importKeyPair"
    /\ calls' = Append(calls, "ImportKeyPair")
    /\ \E b \in SuffixChoices :
          LET keyName == cfg.MachineName \o <<"-">> \o b
          IN  \E resp \in (IF keyName \in keys THEN {"dup"} ELSE {"ok", "err"}) :
                 IF resp = "ok"
                 THEN /\ keys' = keys \cup {keyName}
                      /\ d' = [d EXCEPT !.KeyName = keyName]
                      /\ pc' = "configureSecurityGroups"
                      /\ UNCHANGED innerErr
                 ELSE /\ InnerFail(Wrap("unable to create key pair: ",
                                        IF resp = "dup" THEN ErrKeyDuplicate
                                        ELSE ErrRequest("ImportKeyPair")))
                      /\ UNCHANGED <<keys, d>>
    /\ UNCHANGED <<cfg, query, launch, req, swarmPort, drivers, instances, addrs, groups, op, attempts, errs,
                   createRet, removeRet, sgRet, sg, kp, ops, fresh, runWait, stepLog, hist>>

\* ------------------------------------------------- configureSecurityGroups
\* what the steps of configureSecurityGroups never write
sgFrame == <<cfg, query, launch, req, swarmPort, drivers, keys, instances, addrs, errs, createRet, removeRet, kp, ops,
             fresh, runWait, stepLog, op>>

securityGroupNames == cfg.SecurityGroupNames

\* configureSecurityGroups returns err to its caller; its locals are gone
SgReturn(err) ==
    /\ sgRet' = Ret(err)
    /\ hist' = [hist EXCEPT !.done = @ \/ err = Nil]
    /\ sg' = NoSg
    /\ attempts' = 0
    /\ IF op = "Create"
       THEN IF err = Nil
            THEN pc' = "userData" /\ UNCHANGED innerErr
            ELSE InnerFail(err)
       ELSE pc' = "idle" /\ UNCHANGED innerErr

\* configureSecurityGroups goes on at position p with locals s
SgGoto(p, s) ==
    /\ hist' = [hist EXCEPT !.submitted =
                    IF p = "sgAuthorize"
                    THEN [@ EXCEPT ![s.group.GroupName] = @ \cup Range(s.perms)]
                    ELSE @]
    /\ pc' = p
    /\ sg' = s
    /\ attempts' = 0
    /\ UNCHANGED <<innerErr, sgRet>>

\* the error a remote call of the reconciliation returns for an answer: nil,
\* the provider's "already exists" error of that call, or a request error
AnswerErr(call, resp) ==
    CASE resp = "ok" -> Nil
      [] resp = "dup" ->
           (CASE call = "CreateSecurityGroup" -> ErrGroupDuplicate
              [] call = "CreateTags" -> ErrTagDuplicate
              [] OTHER -> ErrPermissionDuplicate)
      [] OTHER -> ErrRequest(call)

\* an error that is never tolerated
AlreadyExistsNever(err) == FALSE

\* strings.Contains(err.Error(), "already exists"): the errors the
\* reconciliation tolerates
AlreadyExists(err) == Contains(err, "already exists")

\* entry: nothing to do for an empty list, else the batch lookup by name
sgDescribeGroups ==
    /\ pc = "configureSecurityGroups"
    /\ IF Len(securityGroupNames) = 0
       THEN /\ SgReturn(Nil)
            /\ UNCHANGED calls
       ELSE /\ calls' = Append(calls, "DescribeSecurityGroups")
            /\ \E resp \in {"ok", "err"} :
                  IF resp = "ok"
                  THEN SgGoto("sgLoop",
                              [idx |-> 1,
                               byName |-> [n \in GroupNames |->
                                   IF n \in Range(securityGroupNames) /\ groups[n].exists
                                   THEN DescribedGroup(n) ELSE NoGroup],
                               found |-> {n \in Range(securityGroupNames) : groups[n].exists},
                               group |-> NoGroup, perms |-> << >>])
                  ELSE SgReturn(ErrRequest("DescribeSecurityGroups"))
    /\ UNCHANGED <<d, groups>>
    /\ UNCHANGED sgFrame

\* a loop head that creates every group, found by the lookup or not
sgNextGroupAlwaysCreate ==
    /\ pc = "sgLoop"
    /\ IF sg.idx > Len(securityGroupNames)
       THEN SgReturn(Nil)
       ELSE SgGoto("sgCreate", [sg EXCEPT !.group = NoGroup])
    /\ UNCHANGED <<d, groups, calls>>
    /\ UNCHANGED sgFrame

\* head of the loop over groupNames: the lookup in groupsByName
sgNextGroup ==
    /\ pc = "sgLoop"
    /\ IF sg.idx > Len(securityGroupNames)
       THEN SgReturn(Nil)
       ELSE LET name == securityGroupNames[sg.idx]
            IN  IF name \in sg.found
                THEN SgGoto("sgAppend", [sg EXCEPT !.group = sg.byName[name]])
                ELSE SgGoto("sgCreate", [sg EXCEPT !.group = NoGroup])
    /\ UNCHANGED <<d, groups, calls>>
    /\ UNCHANGED sgFrame

\* the group was not in the lookup: CreateSecurityGroup
sgCreateGroup ==
    /\ pc = "sgCreate"
    /\ calls' = Append(calls, "CreateSecurityGroup")
    /\ LET name == securityGroupNames[sg.idx]
       IN  \E resp \in (IF groups[name].exists THEN {"dup", "err"} ELSE {"ok", "err"}) :
              LET err == AnswerErr("CreateSecurityGroup", resp)
              IN  CASE err = Nil ->
                         /\ groups' = [groups EXCEPT ![name].exists = TRUE]
                         /\ SgGoto("sgTag",
                                   [sg EXCEPT !.group = [GroupId |-> GroupId(name),
                                       GroupName |-> name, Tags |-> {}, IpPermissions |-> {}]])
                    [] err # Nil /\ AlreadyExists(err) ->
                         /\ SgGoto("sgRequery", sg)
                         /\ UNCHANGED groups
                    [] OTHER ->
                         /\ SgReturn(err)
                         /\ UNCHANGED groups
    /\ UNCHANGED d
    /\ UNCHANGED sgFrame

\* "already exists" from CreateSecurityGroup: query the group again and adopt it
sgRequery ==
    /\ pc = "sgRequery"
    /\ calls' = Append(calls, "DescribeSecurityGroups")
    /\ LET name == securityGroupNames[sg.idx]
       IN  \E resp \in {"ok", "empty", "err"} :
              CASE resp = "ok" -> SgGoto("sgTag", [sg EXCEPT !.group = DescribedGroup(name)])
                [] resp = "empty" -> SgReturn(ErrCantFindGroup)
                [] OTHER -> SgReturn(ErrRequest("DescribeSecurityGroups"))
    /\ UNCHANGED <<d, groups>>
    /\ UNCHANGED sgFrame

\* CreateTags of the management tag; the tag is then set on the local group
sgTagGroup ==
    /\ pc = "sgTag"
    /\ calls' = Append(calls, "CreateTags")
    /\ LET name == securityGroupNames[sg.idx]
       IN  \E resp \in {"ok", "dup", "err"} :
              IF AnswerErr("CreateTags", resp) # Nil
                 /\ ~AlreadyExists(AnswerErr("CreateTags", resp))
              THEN /\ SgReturn(Wrap("can't create tag for security group. err: ",
                                    AnswerErr("CreateTags", resp)))
                   /\ UNCHANGED groups
              ELSE /\ groups' = IF resp = "ok"
                                THEN [groups EXCEPT ![name].Tags = @ \cup {machineTag}]
                                ELSE groups
                   /\ SgGoto("sgWait", [sg EXCEPT !.group.Tags = {machineTag}])
    /\ UNCHANGED d
    /\ UNCHANGED sgFrame

\* securityGroupAvailableFunc, given the answer of DescribeSecurityGroups by
\* id: true for an answer without error that lists a group
securityGroupAvailableFunc(resp) == resp = "found"

\* one evaluation of securityGroupAvailableFunc under mcnutils.WaitFor
sgWaitAvailable ==
    /\ pc = "sgWait"
    /\ calls' = Log("DescribeSecurityGroups(GroupIds)")
    /\ \E resp \in {"found", "empty", "err"} :
          IF securityGroupAvailableFunc(resp)
          THEN SgGoto("sgAppend", sg)
          ELSE IF attempts + 1 >= WaitMaxAttempts
               THEN SgReturn(ErrWaitTimeout)
               ELSE /\ attempts' = attempts + 1
                    /\ UNCHANGED <<pc, sg, innerErr, sgRet, hist>>
    /\ UNCHANGED <<d, groups>>
    /\ UNCHANGED sgFrame

\* the group id is appended to d.SecurityGroupIds, then the missing rules are
\* computed; nothing is submitted when none is missing
sgAppendAndDiff ==
    /\ pc = "sgAppend"
    /\ d' = [d EXCEPT !.SecurityGroupIds = Append(@, sg.group.GroupId)]
    /\ LET r == configureSecurityGroupPermissions(sg.group, cfg.OpenPorts)
       IN  IF r.err # Nil
           THEN SgReturn(r.err)
           ELSE IF Len(r.perms) # 0
                THEN SgGoto("sgAuthorize", [sg EXCEPT !.perms = r.perms])
                ELSE SgGoto("sgLoop", [sg EXCEPT !.idx = @ + 1, !.perms = << >>])
    /\ UNCHANGED <<groups, calls>>
    /\ UNCHANGED sgFrame

\* the provider accepts an authorization none of whose rules it already holds
\* and that names no rule twice; it answers "already exists" otherwise
AuthorizeAnswers(name, perms) ==
    IF /\ \A i \in DOMAIN perms : perms[i] \notin groups[name].IpPermissions
       /\ \A i, j \in DOMAIN perms : perms[i] = perms[j] => i = j
    THEN {"ok", "err"} ELSE {"dup", "err"}

\* AuthorizeSecurityGroupIngress with the missing rules
sgAuthorizeIngress ==
    /\ pc = "sgAuthorize"
    /\ calls' = Append(calls, "AuthorizeSecurityGroupIngress")
    /\ LET name == securityGroupNames[sg.idx]
       IN  \E resp \in AuthorizeAnswers(name, sg.perms) :
              IF AnswerErr("AuthorizeSecurityGroupIngress", resp) # Nil
                 /\ ~AlreadyExists(AnswerErr("AuthorizeSecurityGroupIngress", resp))
              THEN /\ SgReturn(AnswerErr("AuthorizeSecurityGroupIngress", resp))
                   /\ UNCHANGED groups
              ELSE /\ groups' = IF resp = "ok"
                                THEN [groups EXCEPT ![name].IpPermissions =
                                          @ \cup Range(sg.perms)]
                                ELSE groups
                   /\ SgGoto("sgLoop", [sg EXCEPT !.idx = @ + 1, !.perms = << >>])
    /\ UNCHANGED d
    /\ UNCHANGED sgFrame

\* ------------------------------------------------------ innerCreate, cont.
\* what the steps of innerCreate after the security groups never write
createFrame == <<cfg, query, swarmPort, drivers, keys, groups, errs, createRet, removeRet, sgRet, sg, kp, ops,
                 fresh, op, stepLog, hist>>

\* Base64UserData: a configured file that cannot be read is errorReadingUserData
Base64UserData ==
    /\ pc = "userData"
    /\ IF cfg.UserDataFile = "unreadable"
       THEN InnerFail(errorReadingUserData)
       ELSE pc' = "runInstances" /\ UNCHANGED innerErr
    /\ UNCHANGED <<d, instances, addrs, attempts, calls, runWait>>
    /\ UNCHANGED <<launch, req>>
    /\ UNCHANGED createFrame

\* a loop body that gives every volume the configured size and type
updateBDMAll(bdm) ==
    IF bdm.Ebs = << >> THEN bdm
    ELSE [bdm EXCEPT !.Ebs = <<[VolumeSize |-> launch.RootSize,
                                VolumeType |-> launch.VolumeType,
                                DeleteOnTermination |-> TRUE]>>]

\* the body of updateBDMList's loop on one mapping of d.bdmList, which it
\* changes in place: a mapping with a volume gets the configured size and type
\* when it is the root device, and delete-on-termination
updateBDM(bdm) ==
    IF bdm.Ebs = << >> THEN bdm
    ELSE [bdm EXCEPT !.Ebs =
            <<[VolumeSize |-> IF bdm.DeviceName = launch.DeviceName
                              THEN launch.RootSize ELSE bdm.Ebs[1].VolumeSize,
               VolumeType |-> IF bdm.DeviceName = launch.DeviceName
                              THEN launch.VolumeType ELSE bdm.Ebs[1].VolumeType,
               DeleteOnTermination |-> TRUE]>>]

\* updateBDMList: the changed mappings that have a volume, in order
updateBDMList ==
    SelectSeq([i \in DOMAIN launch.bdmList |-> updateBDM(launch.bdmList[i])],
              LAMBDA bdm : bdm.Ebs # << >>)

\* the single RunInstances request, with the mappings of updateBDMList; the
\* instance id is recorded
RunInstances ==
    /\ pc = "runInstances"
    /\ launch' = [launch EXCEPT !.bdmList = [i \in DOMAIN launch.bdmList |->
                                                updateBDM(launch.bdmList[i])]]
    /\ req' = [req EXCEPT !.op = "RunInstances", !.BlockDeviceMappings = updateBDMList]
    /\ calls' = Append(calls, "RunInstances")
    /\ \E resp \in {"ok", "err"} :
          IF resp = "ok"
          THEN LET id == Len(instances) + 1
               IN  /\ instances' = Append(instances,
                          [State |-> "pending", KeyName |-> d.KeyName,
                           PrivateIpAddress |-> PrivateIpOf(id), Eip |-> 0])
                   /\ d' = [d EXCEPT !.InstanceId = id]
                   /\ attempts' = 0
                   /\ pc' = "waitRunning"
                   /\ UNCHANGED innerErr
          ELSE /\ InnerFail(Wrap("Error launching instance: ", ErrRequest("RunInstances")))
               /\ UNCHANGED <<instances, d, attempts>>
    /\ UNCHANGED <<addrs, runWait>>
    /\ UNCHANGED createFrame

\* a GetState that reports a terminated instance as stopped
GetStateTerminatedStopped(name) ==
    CASE name = "pending" -> "Starting"
      [] name = "running" -> "Running"
      [] name = "stopping" -> "Stopping"
      [] name = "shutting-down" -> "Stopping"
      [] name = "stopped" -> "Stopped"
      [] name = "terminated" -> "Stopped"
      [] OTHER -> "Error"

\* GetState's mapping of the provider's state name
GetState(name) ==
    CASE name = "pending" -> "Starting"
      [] name = "running" -> "Running"
      [] name = "stopping" -> "Stopping"
      [] name = "shutting-down" -> "Stopping"
      [] name = "stopped" -> "Stopped"
      [] name = "terminated" -> "Error"
      [] OTHER -> "Error"

\* an instanceIsRunning that takes a failed query for a running instance
instanceIsRunningOrFailed(resp, id) ==
    resp # "ok" \/ GetState(instances[id].State) = "Running"

\* instanceIsRunning, given the answer of DescribeInstances
instanceIsRunning(resp, id) ==
    resp = "ok" /\ GetState(instances[id].State) = "Running"

\* one evaluation of instanceIsRunning under d.waitForInstance(); innerCreate
\* drops what waitForInstance returns and goes on to AllocateAddress
waitForInstancePoll ==
    /\ pc = "waitRunning"
    /\ calls' = Log("DescribeInstances")
    /\ \E resp \in DescribeInstancesAnswers(d.InstanceId) :
          IF instanceIsRunning(resp, d.InstanceId)
          THEN /\ runWait' = "ok"
               /\ pc' = "allocate"
               /\ attempts' = 0
          ELSE IF attempts + 1 >= WaitMaxAttempts
               THEN /\ runWait' = "timeout"
                    /\ pc' = "allocate"
                    /\ attempts' = 0
               ELSE /\ attempts' = attempts + 1
                    /\ UNCHANGED <<pc, runWait>>
    /\ UNCHANGED <<d, instances, addrs, innerErr>>
    /\ UNCHANGED <<launch, req>>
    /\ UNCHANGED createFrame

\* AllocateAddress; the allocation id and public IP are recorded
AllocateAddress ==
    /\ pc = "allocate"
    /\ calls' = Append(calls, "AllocateAddress")
    /\ \E resp \in {"ok", "err"} :
          IF resp = "ok"
          THEN LET a == Len(addrs) + 1
               IN  /\ addrs' = Append(addrs, [InstanceId |-> 0])
                   /\ d' = [d EXCEPT !.AllocationId = a, !.PublicIp = PublicIpOf(a)]
                   /\ pc' = "associate"
                   /\ UNCHANGED innerErr
          ELSE /\ InnerFail(Wrap("Error allocating external IP: ",
                                 ErrRequest("AllocateAddress")))
               /\ UNCHANGED <<addrs, d>>
    /\ UNCHANGED <<instances, attempts, runWait>>
    /\ UNCHANGED <<launch, req>>
    /\ UNCHANGED createFrame

\* AssociateAddress of the recorded allocation with the recorded instance
AssociateAddress ==
    /\ pc = "associate"
    /\ calls' = Append(calls, "AssociateAddress")
    /\ \E resp \in (IF Describable(d.InstanceId) THEN {"ok", "err"} ELSE {"err"}) :
          IF resp = "ok"
          THEN /\ addrs' = [addrs EXCEPT ![d.AllocationId].InstanceId = d.InstanceId]
               /\ instances' = [instances EXCEPT ![d.InstanceId].Eip = d.AllocationId]
               /\ attempts' = 0
               /\ pc' = "waitIp"
               /\ UNCHANGED innerErr
          ELSE /\ InnerFail(Wrap("Error associating external IP: ",
                                 ErrRequest("AssociateAddress")))
               /\ UNCHANGED <<addrs, instances, attempts>>
    /\ UNCHANGED <<d, runWait>>
    /\ UNCHANGED <<launch, req>>
    /\ UNCHANGED createFrame

\* the ec2.Instance a DescribeInstances answer carries; "stale" is an answer
\* that does not show the associated elastic IP yet
DescribedInstance(id, resp) ==
    [PrivateIpAddress |-> instances[id].PrivateIpAddress,
     PublicIpAddress |-> IF instances[id].Eip # 0 /\ resp # "stale"
                         THEN PublicIpOf(instances[id].Eip) ELSE Nil,
     State |-> instances[id].State,
     KeyName |-> instances[id].KeyName]

\* a GetIP that prefers the public address whenever the instance has one
GetIPPublicFirst(inst) ==
    IF inst.PublicIpAddress # Nil
    THEN [ip |-> inst.PublicIpAddress, err |-> Nil]
    ELSE IF inst.PrivateIpAddress = Nil
         THEN [ip |-> Nil, err |-> <<"No IP for instance">>]
         ELSE [ip |-> inst.PrivateIpAddress, err |-> Nil]

\* GetIP after a successful getInstance: the private address under
\* PrivateIPOnly or UsePrivateIP, the public one otherwise
GetIP(inst) ==
    IF cfg.PrivateIPOnly \/ cfg.UsePrivateIP
    THEN IF inst.PrivateIpAddress = Nil
         THEN [ip |-> Nil, err |-> <<"No private IP for instance">>]
         ELSE [ip |-> inst.PrivateIpAddress, err |-> Nil]
    ELSE IF inst.PublicIpAddress = Nil
         THEN [ip |-> Nil, err |-> <<"No IP for instance">>]
         ELSE [ip |-> inst.PublicIpAddress, err |-> Nil]

\* instanceIpAvailable, given the answer of DescribeInstances: the IP that
\* GetIP returned, "" with an error, and whether it is not ""
instanceIpAvailable(resp, id) ==
    LET ip == IF resp = "err" THEN Nil ELSE GetIP(DescribedInstance(id, resp)).ip
    IN  [ready |-> ip # Nil, ip |-> ip]

\* one evaluation of instanceIpAvailable under mcnutils.WaitFor; on success
\* the IP is recorded, then the private IP of the RunInstances answer
waitForIpPoll ==
    /\ pc = "waitIp"
    /\ calls' = Log("DescribeInstances")
    /\ \E resp \in DescribeInstancesAnswers(d.InstanceId) \cup
                   (IF Describable(d.InstanceId) THEN {"stale"} ELSE {}) :
          LET ip == instanceIpAvailable(resp, d.InstanceId).ip
          IN  IF instanceIpAvailable(resp, d.InstanceId).ready
              THEN /\ d' = [d EXCEPT !.IPAddress = ip,
                                     !.PrivateIPAddress =
                                         instances[d.InstanceId].PrivateIpAddress]
                   /\ pc' = IF cfg.Metadata THEN "metadata" ELSE "tags"
                   /\ attempts' = 0
                   /\ UNCHANGED innerErr
              ELSE IF attempts + 1 >= WaitMaxAttempts
                   THEN /\ InnerFail(ErrWaitTimeout)
                        /\ attempts' = 0
                        /\ UNCHANGED d
                   ELSE /\ attempts' = attempts + 1
                        /\ UNCHANGED <<pc, innerErr, d>>
    /\ UNCHANGED <<instances, addrs, runWait>>
    /\ UNCHANGED <<launch, req>>
    /\ UNCHANGED createFrame

\* ModifyInstanceMetadataOptions, issued when HttpEndpoint or HttpTokens is set
ModifyInstanceMetadataOptions ==
    /\ pc = "metadata"
    /\ calls' = Append(calls, "ModifyInstanceMetadataOptions")
    /\ \E resp \in {"ok", "err"} :
          IF resp = "ok"
          THEN pc' = "tags" /\ UNCHANGED innerErr
          ELSE InnerFail(Wrap("Error modifying instance metadata options for instance: ",
                              ErrRequest("ModifyInstanceMetadataOptions")))
    /\ UNCHANGED <<d, instances, addrs, attempts, runWait>>
    /\ UNCHANGED <<launch, req>>
    /\ UNCHANGED createFrame

\* strings.Split(s, sep) for a one-byte separator
RECURSIVE Split(_, _)
Split(s, sep) ==
    LET i == IndexByte(s, sep)
    IN  IF i < 0 THEN <<s>>
        ELSE <<SubSeq(s, 1, i)>> \o Split(SubSeq(s, i + 2, Len(s)), sep)

Tag(k, v) == [Key |-> k, Value |-> v]

\* a loop that also tags a trailing token, with the empty value
RECURSIVE UserTagsPadded(_, _)
UserTagsPadded(t, i) ==
    IF i < Len(t) - 1 THEN <<Tag(t[i + 1], t[i + 2])>> \o UserTagsPadded(t, i + 2)
    ELSE IF i < Len(t) THEN <<Tag(t[i + 1], << >>)>>
    ELSE << >>

\* the loop of lines 965-970: for i := 0; i < len(t)-1; i += 2
RECURSIVE UserTags(_, _)
UserTags(t, i) ==
    IF i < Len(t) - 1 THEN <<Tag(t[i + 1], t[i + 2])>> \o UserTags(t, i + 2)
    ELSE << >>

\* the warning of lines 962-964
OddTokens(tagGroups) ==
    tagGroups # << >> /\ Len(Split(tagGroups, ",")) % 2 # 0

\* the tags configureTags puts in the CreateTags request, for a MachineName
\* with a hyphen
TagsOf(machineName, tagGroups) ==
    LET ClusterName == SubSeq(machineName, 1, IndexByte(machineName, "-"))
    IN  <<Tag(<<"Name">>, machineName),
          Tag(<<"OscK8sClusterID/">> \o ClusterName, <<"owned">>),
          Tag(<<"OscK8sNodeName">>, machineName)>>
        \o (IF tagGroups # << >> THEN UserTags(Split(tagGroups, ","), 0) ELSE << >>)

\* configureTags: slicing MachineName up to its first hyphen panics without
\* one; else the CreateTags request, after which innerCreate returns nil
configureTags ==
    /\ pc = "tags"
    /\ IF IndexByte(cfg.MachineName, "-") < 0
       THEN /\ pc' = "panic"
            /\ UNCHANGED <<calls, innerErr, req>>
       ELSE /\ calls' = Append(calls, "CreateTags")
            /\ req' = [req EXCEPT !.op = "CreateTags",
                                  !.Tags = TagsOf(cfg.MachineName, launch.Tags),
                                  !.warned = OddTokens(launch.Tags)]
            /\ \E resp \in {"ok", "err"} :
                  IF resp = "ok"
                  THEN pc' = "createReturn" /\ UNCHANGED innerErr
                  ELSE InnerFail(Wrap("Unable to tag instance: ", ErrRequest("CreateTags")))
    /\ UNCHANGED <<d, instances, addrs, attempts, runWait, launch>>
    /\ UNCHANGED createFrame

\* -------------------------------------------------------------------- Remove
\* what the steps of Remove never write
removeFrame == <<cfg, query, launch, req, swarmPort, drivers, d, addrs, groups, attempts, innerErr, createRet, sgRet, sg,
                 ops, fresh, op, runWait, hist>>

\* Remove is entered by the host tool
Remove ==
    /\ pc = "idle"
    /\ pc' = "terminate"
    /\ op' = "Remove"
    /\ fresh' = FALSE
    /\ calls' = << >>
    /\ errs' = << >>
    /\ stepLog' = << >>
    /\ removeRet' = NoRemoveRet
    /\ innerErr' = Nil
    /\ createRet' = NoRet
    /\ sgRet' = NoRet
    /\ runWait' = "none"
    /\ UNCHANGED <<cfg, query, launch, req, swarmPort, drivers, d, keys, instances, addrs, groups, attempts, sg, kp, ops, hist>>

\* answers TerminateInstances can give for an instance id
TerminateAnswers(id) ==
    IF Describable(id) THEN {Nil, ErrRequest("TerminateInstances")}
    ELSE {ErrInstanceNotFound, ErrUnknownInstance, ErrRequest("TerminateInstances")}

\* a terminate that reports every failed TerminateInstances
terminateResultStrict(err) ==
    IF err # Nil THEN Wrap("unable to terminate instance: ", err) ELSE Nil

\* terminate's result for the answer of TerminateInstances: an unknown or
\* not-found instance is no error
terminateResult(err) ==
    IF err # Nil
    THEN IF HasPrefix(err, "unknown instance")
            \/ HasPrefix(err, "InvalidInstanceID.NotFound")
         THEN Nil
         ELSE Wrap("unable to terminate instance: ", err)
    ELSE Nil

\* a Remove that stops at a failed terminate
AfterTerminateShortCircuit(existingKey, termErr) ==
    IF ~existingKey /\ termErr = Nil THEN "deleteKeyPair" ELSE "removeReturn"

\* a Remove that runs deleteKeyPair for every key pair
AfterTerminateAnyKey(existingKey, termErr) == "deleteKeyPair"

\* Remove after terminate: deleteKeyPair runs unless the key pair is an
\* existing one, whatever terminate returned
AfterTerminate(existingKey, termErr) ==
    IF ~existingKey THEN "deleteKeyPair" ELSE "removeReturn"

\* a step of Remove returned err: it is appended to multierr.Errs when not nil
StepDone(step, called, answer, err) ==
    /\ errs' = IF err # Nil THEN Append(errs, err) ELSE errs
    /\ stepLog' = Append(stepLog, [step |-> step, called |-> called,
                                   answer |-> answer, err |-> err])

\* terminate: no call for an empty instance id, else TerminateInstances
terminate ==
    /\ pc = "terminate"
    /\ IF d.InstanceId = 0
       THEN /\ StepDone("terminate", FALSE, Nil, Nil)
            /\ pc' = AfterTerminate(d.ExistingKey, Nil)
            /\ UNCHANGED <<calls, instances>>
       ELSE /\ calls' = Append(calls, "TerminateInstances")
            /\ \E err \in TerminateAnswers(d.InstanceId) :
                  /\ instances' = IF err = Nil /\ instances[d.InstanceId].State # "terminated"
                                  THEN [instances EXCEPT ![d.InstanceId].State = "shutting-down"]
                                  ELSE instances
                  /\ StepDone("terminate", TRUE, err, terminateResult(err))
                  /\ pc' = AfterTerminate(d.ExistingKey, terminateResult(err))
    /\ UNCHANGED <<keys, kp, removeRet>>
    /\ UNCHANGED removeFrame

\* deleteKeyPair up to the DeleteKeyPair call: nothing to do without a key
\* name; else the instance is described to read its key name
deleteKeyPairGetInstance ==
    /\ pc = "deleteKeyPair"
    /\ IF d.KeyName = Nil
       THEN /\ StepDone("deleteKeyPair", FALSE, Nil, Nil)
            /\ pc' = "removeReturn"
            /\ UNCHANGED <<calls, kp>>
       ELSE /\ calls' = Append(calls, "DescribeInstances")
            /\ \E resp \in DescribeInstancesAnswers(d.InstanceId) :
                  IF resp = "ok"
                  THEN /\ kp' = DescribedInstance(d.InstanceId, resp).KeyName
                       /\ pc' = "deleteKeyPairCall"
                       /\ UNCHANGED <<errs, stepLog>>
                  ELSE /\ StepDone("deleteKeyPair", FALSE, DescribeInstancesErr(d.InstanceId),
                                   DescribeInstancesErr(d.InstanceId))
                       /\ pc' = "removeReturn"
                       /\ UNCHANGED kp
    /\ UNCHANGED <<keys, instances, removeRet>>
    /\ UNCHANGED removeFrame

\* deleteKeyPair: DeleteKeyPair of the described instance's key name
DeleteKeyPair ==
    /\ pc = "deleteKeyPairCall"
    /\ calls' = Append(calls, "DeleteKeyPair")
    /\ \E resp \in {"ok", "err"} :
          IF resp = "ok"
          THEN /\ keys' = keys \ {kp}
               /\ StepDone("deleteKeyPair", TRUE, Nil, Nil)
          ELSE /\ StepDone("deleteKeyPair", TRUE, ErrRequest("DeleteKeyPair"),
                           ErrRequest("DeleteKeyPair"))
               /\ UNCHANGED keys
    /\ pc' = "removeReturn"
    /\ UNCHANGED <<instances, kp, removeRet>>
    /\ UNCHANGED removeFrame

\* what Remove returns: nil without errors, else the MultiError of them all
RemoveResult(es) == [done |-> TRUE, isNil |-> Len(es) = 0, Errs |-> es]

\* Remove returns, to Create when Create called it
RemoveReturn ==
    /\ pc = "removeReturn"
    /\ removeRet' = RemoveResult(errs)
    /\ pc' = IF op = "Create" THEN "createReturn" ELSE "idle"
    /\ kp' = Nil
    /\ UNCHANGED <<keys, instances, calls, errs, stepLog>>
    /\ UNCHANGED removeFrame

\* ------------------------------------------------------------ specification
Next ==
    \/ Create
    \/ createKeyPairLocal
    \/ ImportKeyPair
    \/ sgDescribeGroups
    \/ sgNextGroup
    \/ sgCreateGroup
    \/ sgRequery
    \/ sgTagGroup
    \/ sgWaitAvailable
    \/ sgAppendAndDiff
    \/ sgAuthorizeIngress
    \/ Base64UserData
    \/ RunInstances
    \/ waitForInstancePoll
    \/ AllocateAddress
    \/ AssociateAddress
    \/ waitForIpPoll
    \/ ModifyInstanceMetadataOptions
    \/ configureTags
    \/ CreateFailed
    \/ CreateReturn
    \/ Remove
    \/ terminate
    \/ deleteKeyPairGetInstance
    \/ DeleteKeyPair
    \/ RemoveReturn
    \/ ProviderProgress
    \/ PeerCreatesGroup
    \/ PeerAuthorizesRules

Spec == Init /\ [][Next]_vars

\* the steps of the driver's thread once the host tool has entered Create or
\* Remove
DriverStep ==
    \/ createKeyPairLocal
    \/ ImportKeyPair
    \/ sgDescribeGroups
    \/ sgNextGroup
    \/ sgCreateGroup
    \/ sgRequery
    \/ sgTagGroup
    \/ sgWaitAvailable
    \/ sgAppendAndDiff
    \/ sgAuthorizeIngress
    \/ Base64UserData
    \/ RunInstances
    \/ waitForInstancePoll
    \/ AllocateAddress
    \/ AssociateAddress
    \/ waitForIpPoll
    \/ ModifyInstanceMetadataOptions
    \/ configureTags
    \/ CreateFailed
    \/ CreateReturn
    \/ terminate
    \/ deleteKeyPairGetInstance
    \/ DeleteKeyPair
    \/ RemoveReturn

\* the same program with a thread that is never halted and a provider that
\* answers every call: a step of the driver that stays possible is taken
SpecLive == Spec /\ WF_vars(DriverStep)

\* -------------------------------------- reconciliation alone, run repeatedly
\* configurations of the reconciliation: group names and extra open ports
SgConfigs ==
    {Config(<<"c", "-", "n">>, Nil, FALSE, FALSE, FALSE, FALSE, "none", g, o) :
        g \in {<<defaultSecurityGroup>>, <<"custom">>, <<"custom", defaultSecurityGroup>>},
        o \in {<< >>, <<Port080>>, <<Port80tcp>>, <<Port22>>,
                <<Port53udp, Port53udp>>, <<Port80tcp, PortBad>>}}

InitSG == \E c \in SgConfigs : InitWith(c)

\* configureSecurityGroups(d.securityGroupNames()) is called, as innerCreate
\* calls it
Reconcile ==
    /\ pc = "idle"
    /\ ops < MaxRuns
    /\ pc' = "configureSecurityGroups"
    /\ op' = "Reconcile"
    /\ ops' = ops + 1
    /\ calls' = << >>
    /\ sgRet' = NoRet
    /\ hist' = [hist EXCEPT !.covered = Covered]
    /\ UNCHANGED <<cfg, query, launch, req, swarmPort, drivers, d, keys, instances, addrs, groups, attempts, errs, innerErr,
                   createRet, removeRet, sg, kp, fresh, runWait, stepLog>>

NextSG ==
    \/ Reconcile
    \/ sgDescribeGroups
    \/ sgNextGroup
    \/ sgCreateGroup
    \/ sgRequery
    \/ sgTagGroup
    \/ sgWaitAvailable
    \/ sgAppendAndDiff
    \/ sgAuthorizeIngress
    \/ PeerCreatesGroup
    \/ PeerAuthorizesRules

SpecSG == InitSG /\ [][NextSG]_vars

\* ------------------------------------ GetIP and GetState of a created machine
\* state names the provider reports; "rebooting" is one GetState does not know
QueryStates == {"pending", "running", "stopping", "shutting-down", "stopped",
                "terminated", "rebooting"}

\* configurations of a created machine: the two private-address options
QueryConfigs ==
    {Config(<<"c", "-", "n">>, UserKeyName, TRUE, p, u, FALSE, "none", << >>, << >>) :
        p \in BOOLEAN, u \in BOOLEAN}

\* a machine created earlier: the Driver holds the ids and addresses recorded by
\* Create; the provider holds the instance in some state, with or without a
\* private address, with or without the elastic IP still associated
InitQuery ==
    \E c \in QueryConfigs, st \in QueryStates, priv \in BOOLEAN, pub \in BOOLEAN :
        /\ cfg = c
        /\ d = [NewDriver(c) EXCEPT !.InstanceId = 1, !.AllocationId = 1,
                                    !.PublicIp = PublicIpOf(1), !.IPAddress = PublicIpOf(1),
                                    !.PrivateIPAddress = PrivateIpOf(1)]
        /\ keys = {c.KeyPairName}
        /\ instances = <<[State |-> st, KeyName |-> c.KeyPairName,
                          PrivateIpAddress |-> IF priv THEN PrivateIpOf(1) ELSE Nil,
                          Eip |-> IF pub THEN 1 ELSE 0]>>
        /\ addrs = <<[InstanceId |-> IF pub THEN 1 ELSE 0]>>
        /\ groups = [n \in GroupNames |-> [exists |-> FALSE, Tags |-> {}, IpPermissions |-> {}]]
        /\ pc = "idle"
        /\ op = "none"
        /\ attempts = 0
        /\ calls = << >>
        /\ errs = << >>
        /\ innerErr = Nil
        /\ createRet = NoRet
        /\ removeRet = NoRemoveRet
        /\ sgRet = NoRet
        /\ sg = NoSg
        /\ kp = Nil
        /\ ops = 0
        /\ fresh = FALSE
        /\ runWait = "none"
        /\ stepLog = << >>
        /\ hist = NoHist
        /\ query = NoQuery
        /\ launch = NoLaunch
        /\ req = NoReq
        /\ swarmPort = 3376
        /\ drivers = NoDrivers

\* what GetIP and GetState never write
queryFrame == <<cfg, launch, req, swarmPort, drivers, d, keys, instances, addrs, groups, pc, op, attempts, calls, errs,
                innerErr, createRet, removeRet, sgRet, sg, kp, ops, fresh, runWait,
                stepLog, hist>>

\* the host tool calls GetIP: getInstance, then the address the options select
GetIPCall ==
    /\ pc = "idle"
    /\ \E resp \in DescribeInstancesAnswers(d.InstanceId) :
          query' = IF resp = "ok"
                   THEN LET inst == DescribedInstance(d.InstanceId, resp)
                        IN  [op |-> "GetIP", descErr |-> Nil, described |-> inst,
                             ip |-> GetIP(inst).ip, state |-> "none", err |-> GetIP(inst).err,
                             url |-> Nil]
                   ELSE [op |-> "GetIP", descErr |-> DescribeInstancesErr(d.InstanceId),
                         described |-> NoInst, ip |-> Nil, state |-> "none",
                         err |-> DescribeInstancesErr(d.InstanceId), url |-> Nil]
    /\ UNCHANGED queryFrame

\* the host tool calls GetState: getInstance, then the mapping of the state name
GetStateCall ==
    /\ pc = "idle"
    /\ \E resp \in DescribeInstancesAnswers(d.InstanceId) :
          query' = IF resp = "ok"
                   THEN LET inst == DescribedInstance(d.InstanceId, resp)
                        IN  [op |-> "GetState", descErr |-> Nil, described |-> inst,
                             ip |-> Nil, state |-> GetState(inst.State), err |-> Nil,
                             url |-> Nil]
                   ELSE [op |-> "GetState", descErr |-> DescribeInstancesErr(d.InstanceId),
                         described |-> NoInst, ip |-> Nil, state |-> "Error",
                         err |-> DescribeInstancesErr(d.InstanceId), url |-> Nil]
    /\ UNCHANGED queryFrame

\* drivers.ErrHostIsNotRunning, returned by drivers.MustBeRunning
ErrHostIsNotRunning == <<"Host is not running">>

\* fmt.Sprintf("tcp://%s", net.JoinHostPort(ip, strconv.Itoa(dockerPort)))
DockerURL(ip) == <<"tcp://">> \o ip \o <<":">> \o FormatInt(dockerPort)

\* what GetURL returns, given the answers of the two DescribeInstances it
\* makes: drivers.MustBeRunning (GetState, then the comparison with Running),
\* then GetIP, then the URL unless the IP is the empty string
GetURL(resp1, resp2) ==
    LET id == d.InstanceId
        st == IF resp1 = "ok" THEN GetState(instances[id].State) ELSE "Error"
        inst == IF resp2 = "ok" THEN DescribedInstance(id, resp2) ELSE NoInst
        base == [op |-> "GetURL", descErr |-> Nil, described |-> NoInst, ip |-> Nil,
                 state |-> st, err |-> Nil, url |-> Nil]
    IN  IF resp1 # "ok"
        THEN [base EXCEPT !.descErr = DescribeInstancesErr(id),
                          !.err = DescribeInstancesErr(id)]
        ELSE IF st # "Running"
        THEN [base EXCEPT !.err = ErrHostIsNotRunning]
        ELSE IF resp2 # "ok"
        THEN [base EXCEPT !.descErr = DescribeInstancesErr(id),
                          !.err = DescribeInstancesErr(id)]
        ELSE IF GetIP(inst).err # Nil
        THEN [base EXCEPT !.described = inst, !.err = GetIP(inst).err]
        ELSE IF GetIP(inst).ip = Nil
        THEN [base EXCEPT !.described = inst]
        ELSE [base EXCEPT !.described = inst, !.ip = GetIP(inst).ip,
                          !.url = DockerURL(GetIP(inst).ip)]

\* the host tool calls GetURL
GetURLCall ==
    /\ pc = "idle"
    /\ \E resp1 \in DescribeInstancesAnswers(d.InstanceId),
          resp2 \in DescribeInstancesAnswers(d.InstanceId) :
          query' = GetURL(resp1, resp2)
    /\ UNCHANGED queryFrame

\* what Start, Stop, Kill and Restart never write
lifecycleFrame == <<cfg, launch, req, swarmPort, drivers, d, keys, addrs, groups, errs,
                    innerErr, createRet, removeRet, sgRet, sg, kp, ops, fresh, runWait,
                    stepLog, hist>>

\* what a lifecycle call returned: the provider's answer to its request, the
\* state its last poll saw, the error returned
Returned(name, answer, st, err) ==
    [op |-> name, descErr |-> answer, described |-> NoInst, ip |-> Nil,
     state |-> st, err |-> err, url |-> Nil]

\* the state the provider moves an instance to when it accepts a request
Accepted(call, st) ==
    CASE call = "StartInstances" /\ st = "stopped" -> "pending"
      [] call \in {"StopInstances(Force=false)", "StopInstances(Force=true)"}
            /\ st \in {"pending", "running"} -> "stopping"
      [] OTHER -> st

\* one request about d.InstanceId and the provider's answer to it
Request(call, resp) ==
    /\ calls' = <<call>>
    /\ instances' = IF resp = "ok" /\ Describable(d.InstanceId)
                    THEN [instances EXCEPT ![d.InstanceId].State =
                                              Accepted(call, instances[d.InstanceId].State)]
                    ELSE instances

\* a Start that returns as soon as StartInstances has answered
AfterStartInstancesNoWait(err) == "return"

\* lines 768-772: the request's error is returned, else waitForInstance runs
AfterStartInstances(err) == IF err # Nil THEN "return" ELSE "waitForInstance"

\* Start: StartInstances, then d.waitForInstance()
Start ==
    /\ pc = "idle"
    /\ op' = "Start"
    /\ attempts' = 0
    /\ \E resp \in {"ok", "err"} :
          LET err == AnswerErr("StartInstances", resp)
          IN  /\ Request("StartInstances", resp)
              /\ IF AfterStartInstances(err) = "return"
                 THEN /\ query' = Returned("Start", err, "none", err)
                      /\ pc' = "idle"
                 ELSE /\ query' = Returned("Start", err, "none", Nil)
                      /\ pc' = "startWait"
    /\ UNCHANGED lifecycleFrame

\* one evaluation of instanceIsRunning under the waitForInstance of Start,
\* whose result Start returns
startWaitPoll ==
    /\ pc = "startWait"
    /\ calls' = Log("DescribeInstances")
    /\ \E resp \in DescribeInstancesAnswers(d.InstanceId) :
          LET st == IF resp = "ok" THEN GetState(instances[d.InstanceId].State)
                    ELSE "Error"
          IN  IF instanceIsRunning(resp, d.InstanceId)
              THEN /\ query' = Returned("Start", Nil, st, Nil)
                   /\ pc' = "idle"
                   /\ attempts' = 0
              ELSE IF attempts + 1 >= WaitMaxAttempts
                   THEN /\ query' = Returned("Start", Nil, st, ErrWaitTimeout)
                        /\ pc' = "idle"
                        /\ attempts' = 0
                   ELSE /\ query' = Returned("Start", Nil, st, Nil)
                        /\ attempts' = attempts + 1
                        /\ UNCHANGED pc
    /\ UNCHANGED <<op, instances>>
    /\ UNCHANGED lifecycleFrame

\* a lifecycle call that is one request whose result is returned
OneRequest(name, call) ==
    /\ pc = "idle"
    /\ op' = name
    /\ \E resp \in {"ok", "err"} :
          /\ Request(call, resp)
          /\ query' = Returned(name, AnswerErr(call, resp), "none", AnswerErr(call, resp))
    /\ UNCHANGED <<pc, attempts>>
    /\ UNCHANGED lifecycleFrame

\* Stop: StopInstances with Force false
Stop == OneRequest("Stop", "StopInstances(Force=false)")

\* Restart: RebootInstances
Restart == OneRequest("Restart", "RebootInstances")

\* Kill: StopInstances with Force true
Kill == OneRequest("Kill", "StopInstances(Force=true)")

\* the instance changes state at the provider between two calls, or is
\* forgotten by it
InstanceChangesState ==
    /\ pc = "idle"
    /\ Describable(d.InstanceId)
    /\ \E st \in QueryStates \cup {"gone"} :
          /\ st # instances[d.InstanceId].State
          /\ instances' = [instances EXCEPT ![d.InstanceId].State = st]
    /\ UNCHANGED <<cfg, query, launch, req, swarmPort, drivers, d, keys, addrs, groups, pc, op, attempts, calls, errs,
                   innerErr, createRet, removeRet, sgRet, sg, kp, ops, fresh, runWait,
                   stepLog, hist>>

NextQuery ==
    \/ GetIPCall
    \/ GetStateCall
    \/ GetURLCall
    \/ Start
    \/ startWaitPoll
    \/ Stop
    \/ Restart
    \/ Kill
    \/ ProviderProgress
    \/ InstanceChangesState

SpecQuery == InitQuery /\ [][NextQuery]_vars

\* ------------------------------------------------- launch and tag requests
\* strings.Join(tokens, sep)
RECURSIVE Join(_, _)
Join(tokens, sep) ==
    IF tokens = << >> THEN << >>
    ELSE IF Len(tokens) = 1 THEN tokens[1]
    ELSE tokens[1] \o <<sep>> \o Join(Tail(tokens), sep)

\* the sequences over S of at most n elements
SeqsUpTo(S, n) == UNION {[1..k -> S] : k \in 0..n}

\* tokens of a tag text: a word, or nothing between two commas
TagTokens == {<<"k">>, << >>}

Ebs(size, type, del) ==
    <<[VolumeSize |-> size, VolumeType |-> type, DeleteOnTermination |-> del]>>

\* block device mappings of an image: volumes with and without
\* delete-on-termination, and a mapping without a volume
ImageMappings ==
    {[DeviceName |-> "/dev/sda1", Ebs |-> Ebs(10, "standard", FALSE)],
     [DeviceName |-> "/dev/sdb", Ebs |-> Ebs(20, "io1", FALSE)],
     [DeviceName |-> "/dev/sdb", Ebs |-> Ebs(20, "io1", TRUE)],
     [DeviceName |-> "/dev/sdc", Ebs |-> << >>]}

\* launch options after SetConfigFromFlags and checkAMI: the tag text, the
\* root device name, size and type, the mappings of the image
Launches ==
    {[Tags |-> Join(toks, ","), tokens |-> toks, DeviceName |-> dev,
      RootSize |-> defaultRootSize, VolumeType |-> defaultVolumeType, bdmList |-> l] :
        toks \in SeqsUpTo(TagTokens, MaxTokens),
        dev \in {"/dev/sda1", "/dev/xvda"},
        l \in SeqsUpTo(ImageMappings, MaxMappings)}

\* a Create about to send RunInstances, or about to tag the instance it ran
InitLaunch ==
    \E m \in MachineNames, l \in Launches, at \in {"runInstances", "tags"} :
        LET c == Config(m, UserKeyName, TRUE, FALSE, FALSE, FALSE, "none", << >>, << >>)
        IN  /\ cfg = c
            /\ launch = l
            /\ d = IF at = "tags"
                   THEN [NewDriver(c) EXCEPT !.InstanceId = 1, !.AllocationId = 1,
                                             !.PublicIp = PublicIpOf(1),
                                             !.IPAddress = PublicIpOf(1),
                                             !.PrivateIPAddress = PrivateIpOf(1)]
                   ELSE NewDriver(c)
            /\ keys = {c.KeyPairName}
            /\ instances = IF at = "tags"
                           THEN <<[State |-> "running", KeyName |-> c.KeyPairName,
                                   PrivateIpAddress |-> PrivateIpOf(1), Eip |-> 1]>>
                           ELSE << >>
            /\ addrs = IF at = "tags" THEN <<[InstanceId |-> 1]>> ELSE << >>
            /\ groups = [n \in GroupNames |->
                            [exists |-> FALSE, Tags |-> {}, IpPermissions |-> {}]]
            /\ pc = at
            /\ op = "Create"
            /\ attempts = 0
            /\ calls = << >>
            /\ errs = << >>
            /\ innerErr = Nil
            /\ createRet = NoRet
            /\ removeRet = NoRemoveRet
            /\ sgRet = NoRet
            /\ sg = NoSg
            /\ kp = Nil
            /\ ops = 1
            /\ fresh = TRUE
            /\ runWait = IF at = "tags" THEN "ok" ELSE "none"
            /\ stepLog = << >>
            /\ hist = NoHist
            /\ query = NoQuery
            /\ req = NoReq
            /\ swarmPort = 3376
            /\ drivers = NoDrivers

NextLaunch ==
    \/ RunInstances
    \/ configureTags

SpecLaunch == InitLaunch /\ [][NextLaunch]_vars

\* ------------------------------------------- several Drivers in one process
\* the host part of --swarm-host values: with a port, with another port, with
\* a port that is no number
SwarmHosts == {<<"h", ":", "3", "3", "7", "6">>, <<"h", ":", "2", "3", "7", "7">>,
               <<"h", ":", "x">>}

\* a Driver made by NewDriver whose flags have not been applied yet
FlaggedDriver(master, host) ==
    [SwarmMaster |-> master, SwarmHost |-> host, configured |-> "no",
     wroteSwarmPort |-> FALSE]

\* two Drivers of one process, SetConfigFromFlags not yet called on either
InitProcess ==
    \E m1 \in BOOLEAN, m2 \in BOOLEAN, h1 \in SwarmHosts, h2 \in SwarmHosts :
        LET c == Config(<<"c", "-", "n">>, Nil, FALSE, FALSE, FALSE, FALSE, "none",
                        << >>, << >>)
        IN  /\ drivers = <<FlaggedDriver(m1, h1), FlaggedDriver(m2, h2)>>
            /\ swarmPort = 3376
            /\ cfg = c
            /\ d = NewDriver(c)
            /\ keys = {}
            /\ instances = << >>
            /\ addrs = << >>
            /\ groups = [n \in GroupNames |->
                            [exists |-> FALSE, Tags |-> {}, IpPermissions |-> {}]]
            /\ pc = "idle"
            /\ op = "none"
            /\ attempts = 0
            /\ calls = << >>
            /\ errs = << >>
            /\ innerErr = Nil
            /\ createRet = NoRet
            /\ removeRet = NoRemoveRet
            /\ sgRet = NoRet
            /\ sg = NoSg
            /\ kp = Nil
            /\ ops = 0
            /\ fresh = TRUE
            /\ runWait = "none"
            /\ stepLog = << >>
            /\ hist = NoHist
            /\ query = NoQuery
            /\ launch = NoLaunch
            /\ req = NoReq

\* the end of SetConfigFromFlags (lines 400-416) on Driver i: a swarm master
\* parses the port of its swarm host and assigns it to the package-level
\* swarmPort; strconv.Atoi reads what strconv.ParseInt reads in base 10
SetConfigFromFlags(i) ==
    /\ drivers[i].configured = "no"
    /\ IF drivers[i].SwarmMaster
       THEN LET parts == Split(drivers[i].SwarmHost, ":")
                port == ParseInt(parts[2])
            IN  IF port.ok
                THEN /\ swarmPort' = port.val
                     /\ drivers' = [drivers EXCEPT ![i].configured = "ok",
                                                   ![i].wroteSwarmPort = TRUE]
                ELSE /\ drivers' = [drivers EXCEPT ![i].configured = "err"]
                     /\ UNCHANGED swarmPort
       ELSE /\ drivers' = [drivers EXCEPT ![i].configured = "ok"]
            /\ UNCHANGED swarmPort
    /\ UNCHANGED <<cfg, query, launch, req, d, keys, instances, addrs, groups, pc, op,
                   attempts, calls, errs, innerErr, createRet, removeRet, sgRet, sg, kp,
                   ops, fresh, runWait, stepLog, hist>>

NextProcess == \E i \in DOMAIN drivers : SetConfigFromFlags(i)

SpecProcess == InitProcess /\ [][NextProcess]_vars

\* ------------------------------------------------------------------- claims
Issued(call) == call \in Range(calls)

\* the Remove that Create called has returned
RollbackDone == op = "Create" /\ removeRet.done

\* the entries of the step log of a step of Remove
StepEntries(step) == {i \in DOMAIN stepLog : stepLog[i].step = step}

NotFoundAnswers == {ErrInstanceNotFound, ErrUnknownInstance}

\* err carries e: e's message is a part of err's message
Carries(err, e) ==
    \E i \in 1..(Len(err) - Len(e) + 1) : SubSeq(err, i, i + Len(e) - 1) = e

\* C1: whenever innerCreate returned an error, Remove has been run and has
\* returned by the time Create returns, and Create returns innerCreate's error.
C1_FailedCreateRunsRemove ==
    /\ (pc = "createReturn" /\ innerErr # Nil) =>
          (removeRet.done /\ StepEntries("terminate") # {})
    /\ (createRet.done /\ innerErr # Nil) =>
          (removeRet.done /\ ~createRet.isNil /\ createRet.err = innerErr)
    /\ (createRet.done /\ innerErr = Nil) => createRet.isNil

\* C1 witness: a Create that failed at tagging, the last step, has returned
\* after its Remove terminated the instance.
C1_Witness ==
    /\ createRet.done
    /\ HasPrefix(createRet.err, "Unable to tag instance: ")
    /\ removeRet.done
    /\ Issued("TerminateInstances")

\* C2: once the rollback Remove of a failed Create has returned, it has issued
\* TerminateInstances if an instance id was recorded; and DeleteKeyPair is
\* never issued while the key pair is a caller-supplied one.
C2_RollbackTerminatesAndKeepsExistingKey ==
    /\ (RollbackDone /\ d.InstanceId # 0) => Issued("TerminateInstances")
    /\ d.ExistingKey => ~Issued("DeleteKeyPair")

\* C2 witness: a rollback with a recorded instance id and a caller-supplied
\* key pair has returned, having terminated the instance.
C2_Witness ==
    /\ RollbackDone
    /\ d.InstanceId # 0
    /\ d.ExistingKey
    /\ Issued("TerminateInstances")
    /\ cfg.KeyPairName \in keys

\* C3 (as claimed): a Remove that returns with an elastic IP recorded has
\* issued a release or a disassociation of it.
C3_TeardownReleasesElasticIp ==
    (removeRet.done /\ d.AllocationId # 0) =>
        (Issued("ReleaseAddress") \/ Issued("DisassociateAddress"))

\* C4 (as claimed): a Remove that returns while the driver holds a key pair it
\* imported has issued DeleteKeyPair.
C4_RemoveDeletesImportedKey ==
    (removeRet.done /\ ~d.ExistingKey /\ d.KeyName # Nil) => Issued("DeleteKeyPair")

\* C5 (as claimed): a Remove whose TerminateInstances was answered "not found"
\* returns no error that says the instance does not exist.
C5_RemoveOfVanishedInstanceSucceeds ==
    (/\ op = "Remove"
     /\ removeRet.done
     /\ \E i \in StepEntries("terminate") :
           stepLog[i].called /\ stepLog[i].answer \in NotFoundAnswers) =>
        \A k \in DOMAIN removeRet.Errs :
            \A nf \in NotFoundAnswers : ~Carries(removeRet.Errs[k], nf)

\* C6: terminate returns nil without a call for an empty instance id, nil for
\* a TerminateInstances answered with success, "not found" or "unknown
\* instance", and an error for every other answer.
C6_TerminateResult ==
    \A i \in StepEntries("terminate") :
        LET e == stepLog[i]
        IN  /\ d.InstanceId = 0 => (~e.called /\ e.err = Nil /\ ~Issued("TerminateInstances"))
            /\ d.InstanceId # 0 => (e.called /\ Issued("TerminateInstances"))
            /\ (e.called /\ e.answer \in NotFoundAnswers \cup {Nil}) => e.err = Nil
            /\ (e.called /\ e.answer \notin NotFoundAnswers \cup {Nil}) =>
                  (e.err # Nil /\ Carries(e.err, e.answer))

\* C6 witness: terminate returned nil for a TerminateInstances answered
\* "not found".
C6_Witness ==
    \E i \in StepEntries("terminate") :
        stepLog[i].called /\ stepLog[i].answer = ErrInstanceNotFound /\ stepLog[i].err = Nil

\* the errors of the steps that failed, in the order of the steps
RECURSIVE FailedErrs(_)
FailedErrs(log) ==
    IF log = << >> THEN << >>
    ELSE (IF Head(log).err # Nil THEN <<Head(log).err>> ELSE << >>) \o FailedErrs(Tail(log))

\* C7: when Remove returns it has run terminate, and deleteKeyPair exactly
\* when the key pair is not an existing one, whatever terminate returned; it
\* returns nil exactly when no step failed, and else the errors of exactly
\* the failed steps.
C7_RemoveAggregatesBothSteps ==
    removeRet.done =>
        /\ Cardinality(StepEntries("terminate")) = 1
        /\ Cardinality(StepEntries("deleteKeyPair")) = IF d.ExistingKey THEN 0 ELSE 1
        /\ removeRet.isNil <=> (FailedErrs(stepLog) = << >>)
        /\ removeRet.Errs = FailedErrs(stepLog)

\* C7 witness: a Remove has returned one error, terminate's, after
\* deleteKeyPair issued DeleteKeyPair and succeeded.
C7_Witness ==
    /\ removeRet.done
    /\ Len(removeRet.Errs) = 1
    /\ \E i \in StepEntries("terminate") : stepLog[i].err # Nil
    /\ \E i \in StepEntries("deleteKeyPair") : stepLog[i].called /\ stepLog[i].err = Nil

\* C8 (as claimed): Create returns nil only after waitForInstance succeeded;
\* after waitForInstance timed out no elastic-IP, metadata or tagging call is
\* issued and Create returns the timeout.
C8_RunningWaitTimeoutStopsCreate ==
    /\ (createRet.done /\ createRet.isNil) => runWait = "ok"
    /\ runWait = "timeout" =>
          /\ ~Issued("AllocateAddress")
          /\ ~Issued("AssociateAddress")
          /\ ~Issued("ModifyInstanceMetadataOptions")
          /\ createRet.done => createRet.err = ErrWaitTimeout

\* C9 (as claimed): when Create returns an error and its Remove returned
\* errors, the error of Create carries innerCreate's error and each of them.
C9_CreateReportsCleanupFailure ==
    (createRet.done /\ ~createRet.isNil /\ removeRet.done /\ ~removeRet.isNil) =>
        /\ Carries(createRet.err, innerErr)
        /\ \A k \in DOMAIN removeRet.Errs : Carries(createRet.err, removeRet.Errs[k])

\* C10 (as claimed): a reconciliation that began after one had returned nil,
\* with the provider reporting every configured group with all the rules
\* submitted so far, issues no CreateSecurityGroup and no
\* AuthorizeSecurityGroupIngress.
C10_ReconciliationIdempotent ==
    (op = "Reconcile" /\ hist.covered) =>
        (~Issued("CreateSecurityGroup") /\ ~Issued("AuthorizeSecurityGroupIngress"))

\* one of the named remote calls has been issued
IssuedAny(names) == \E i \in DOMAIN calls : calls[i] \in names

\* the name the reconciliation loop is at
CurrentGroupName == cfg.SecurityGroupNames[sg.idx]

\* C11 (as claimed): the permissions a diff hands to
\* AuthorizeSecurityGroupIngress hold no rule whose port/protocol key the
\* group already has, and no two rules with the same port/protocol key.
C11_DiffSubmitsNoKnownOrRepeatedKey ==
    pc = "sgAuthorize" =>
        /\ \A i \in DOMAIN sg.perms : PermKey(sg.perms[i]) \notin hasPortsInbound(sg.group)
        /\ \A i, j \in DOMAIN sg.perms :
              PermKey(sg.perms[i]) = PermKey(sg.perms[j]) => i = j

\* C12 (as claimed): when a reconciliation has returned nil, d.SecurityGroupIds
\* holds exactly the provider id of each requested name, in the order of the
\* names.
C12_GroupIdsOnePerName ==
    (sgRet.done /\ sgRet.isNil) =>
        /\ Len(d.SecurityGroupIds) = Len(cfg.SecurityGroupNames)
        /\ \A i \in DOMAIN cfg.SecurityGroupNames :
              d.SecurityGroupIds[i] = GroupId(cfg.SecurityGroupNames[i])

C14_GroupCreatedOnceNeverDeleted ==
    /\ [][\A n \in GroupNames : groups[n].exists => groups'[n].exists]_vars
    /\ [](pc = "sgCreate" => CurrentGroupName \notin sg.found)
    /\ [][(pc = "sgCreate" /\ pc' = "sgTag") =>
             (~groups[CurrentGroupName].exists /\ groups'[CurrentGroupName].exists)]_vars

\* C14 witness: the rollback of a failed Create that had created the security
\* group has returned, and the group still exists.
C14_Witness ==
    /\ RollbackDone
    /\ Issued("CreateSecurityGroup")
    /\ Issued("TerminateInstances")
    /\ groups[defaultSecurityGroup].exists

\* C15 (as claimed): when innerCreate has failed with the user-data error, this
\* Create has issued no mutating remote call.
C15_UserDataErrorBeforeMutation ==
    innerErr = errorReadingUserData =>
        ~IssuedAny({"ImportKeyPair", "CreateSecurityGroup", "CreateTags",
                    "AuthorizeSecurityGroupIngress", "RunInstances"})

\* C16 (as claimed): when innerCreate has failed with the invalid-port error,
\* this Create has issued no ImportKeyPair, CreateSecurityGroup, CreateTags or
\* AuthorizeSecurityGroupIngress.
C16_InvalidPortBeforeMutation ==
    HasPrefix(innerErr, "invalid port number ") =>
        ~IssuedAny({"ImportKeyPair", "CreateSecurityGroup", "CreateTags",
                    "AuthorizeSecurityGroupIngress"})

\* C17: with a key-pair name supplied, no ImportKeyPair is ever issued, the
\* recorded key name is the supplied one and the key is marked existing, in
\* every state of Create and Remove.
C17_SuppliedKeyPairIsNotImported ==
    cfg.KeyPairName # Nil =>
        /\ ~Issued("ImportKeyPair")
        /\ d.KeyName = cfg.KeyPairName
        /\ d.ExistingKey

\* C17 witness: with a key-pair name supplied, a Create succeeded and a later
\* Remove has returned.
C17_Witness ==
    /\ cfg.KeyPairName # Nil
    /\ op = "Remove"
    /\ removeRet.done
    /\ d.InstanceId # 0
    /\ ~fresh
    /\ Issued("TerminateInstances")

\* C18 (as claimed): a Create with the private-IP-only flag issues no
\* AllocateAddress and no AssociateAddress.
C18_NoElasticIpWhenPrivateOnly ==
    cfg.PrivateIPOnly => ~IssuedAny({"AllocateAddress", "AssociateAddress"})

\* C19: GetIP returns the describe error and no address when the instance
\* cannot be described; else the private address under private-only or
\* use-private-IP and the public one otherwise, with no error; and an error
\* and no address when the selected address is absent.
C19_GetIPFollowsAddressPolicy ==
    query.op = "GetIP" =>
        LET inst == query.described
            selected == IF cfg.PrivateIPOnly \/ cfg.UsePrivateIP
                        THEN inst.PrivateIpAddress ELSE inst.PublicIpAddress
        IN  IF query.descErr # Nil
            THEN query.ip = Nil /\ query.err = query.descErr
            ELSE IF selected = Nil
                 THEN query.ip = Nil /\ query.err # Nil
                 ELSE query.ip = selected /\ query.err = Nil

\* C19 witness: under use-private-IP, GetIP returned the private address of an
\* instance that also has a public one.
C19_Witness ==
    /\ query.op = "GetIP"
    /\ cfg.UsePrivateIP
    /\ ~cfg.PrivateIPOnly
    /\ query.described.PublicIpAddress # Nil
    /\ query.ip = PrivateIpOf(1)
    /\ query.err = Nil

\* the state GetState is to return for each state name of the provider
StateTable ==
    [n \in QueryStates |->
        CASE n = "pending" -> "Starting"
          [] n = "running" -> "Running"
          [] n \in {"stopping", "shutting-down"} -> "Stopping"
          [] n = "stopped" -> "Stopped"
          [] OTHER -> "Error"]

\* C20: GetState returns Error with the query error when the query failed;
\* else, with no error, the state the table gives for the state name the
\* provider reported in that call, which is the one the provider holds when
\* the call is made.
C20_GetStateMapsFreshQuery ==
    /\ [](query.op = "GetState" =>
            IF query.descErr # Nil
            THEN query.state = "Error" /\ query.err = query.descErr
            ELSE query.err = Nil /\ query.state = StateTable[query.described.State])
    /\ [][(query'.op = "GetState" /\ query'.descErr = Nil /\ UNCHANGED instances) =>
             query'.described.State = instances[d.InstanceId].State]_vars

\* C20 witness: GetState returned Error without an error value for a state
\* name it does not know.
C20_Witness ==
    /\ query.op = "GetState"
    /\ query.described.State = "rebooting"
    /\ query.state = "Error"
    /\ query.err = Nil

\* the address the options select on a described instance
SelectedAddress(inst) ==
    IF cfg.PrivateIPOnly \/ cfg.UsePrivateIP THEN inst.PrivateIpAddress
    ELSE inst.PublicIpAddress

\* C21: a GetURL of a running, described instance returns the empty URL and no
\* error when the address the options select is absent or empty, and
\* tcp://<address>:2376 and no error otherwise.
C21_GetURLEmptyWithoutErrorWhenNoIp ==
    (query.op = "GetURL" /\ query.state = "Running" /\ query.descErr = Nil) =>
        /\ query.err = Nil
        /\ query.url = IF SelectedAddress(query.described) = Nil THEN Nil
                       ELSE <<"tcp://">> \o SelectedAddress(query.described)
                            \o <<":", "2", "3", "7", "6">>

\* C22: the CreateTags request carries the Name tag, the cluster-ownership
\* tag and the node-name tag, then one user tag per complete pair of tokens of
\* the tag text, the i-th made of tokens 2i-1 and 2i; an odd number of tokens
\* drops the last one with a warning and tagging succeeds all the same; the
\* empty tag text adds no user tag.
C22_TagRequestPairsTokens ==
    (req.op = "CreateTags") =>
        LET n == Len(launch.tokens)
        IN  /\ Issued("CreateTags")
            /\ Len(req.Tags) = 3 + (n \div 2)
            /\ req.Tags[1] = [Key |-> <<"Name">>, Value |-> cfg.MachineName]
            /\ req.Tags[2] = [Key |-> <<"OscK8sClusterID/", "c">>, Value |-> <<"owned">>]
            /\ req.Tags[3] = [Key |-> <<"OscK8sNodeName">>, Value |-> cfg.MachineName]
            /\ \A i \in 1..(n \div 2) :
                  req.Tags[3 + i] = [Key |-> launch.tokens[2 * i - 1],
                                     Value |-> launch.tokens[2 * i]]
            /\ req.warned = (launch.Tags # << >> /\ n % 2 = 1)
            /\ (launch.Tags = << >>) => Len(req.Tags) = 3
            /\ (pc = "createReturn") => innerErr = Nil

\* a tag text of three tokens was sent as one user tag, with the warning, and
\* tagging succeeded
C22_Witness ==
    /\ req.op = "CreateTags"
    /\ Len(launch.tokens) = 3
    /\ launch.tokens[1] # << >>
    /\ req.warned
    /\ Len(req.Tags) = 4
    /\ pc = "createReturn"

\* C23: of the image's mappings that have a volume, RunInstances is sent each
\* one in order; the one whose device name is the configured root device name
\* carries the configured size and type, every other one its own size and
\* type, and every one has delete-on-termination set.
C23_OnlyRootDeviceResized ==
    [][(pc = "runInstances") =>
          LET in == SelectSeq(launch.bdmList, LAMBDA b : b.Ebs # << >>)
              out == req'.BlockDeviceMappings
          IN  /\ req'.op = "RunInstances"
              /\ Len(out) = Len(in)
              /\ \A i \in DOMAIN out :
                    /\ out[i].DeviceName = in[i].DeviceName
                    /\ out[i].Ebs[1].DeleteOnTermination
                    /\ IF in[i].DeviceName = launch.DeviceName
                       THEN /\ out[i].Ebs[1].VolumeSize = launch.RootSize
                            /\ out[i].Ebs[1].VolumeType = launch.VolumeType
                       ELSE /\ out[i].Ebs[1].VolumeSize = in[i].Ebs[1].VolumeSize
                            /\ out[i].Ebs[1].VolumeType = in[i].Ebs[1].VolumeType]_vars

\* RunInstances was sent the root device resized and a second volume with its
\* own size and type, the image having had delete-on-termination unset on both
C23_Witness ==
    /\ req.op = "RunInstances"
    /\ Len(req.BlockDeviceMappings) = 2
    /\ req.BlockDeviceMappings[1].DeviceName = launch.DeviceName
    /\ req.BlockDeviceMappings[1].Ebs[1].VolumeSize = 30
    /\ req.BlockDeviceMappings[2].DeviceName # launch.DeviceName
    /\ req.BlockDeviceMappings[2].Ebs[1].VolumeSize = 20
    /\ req.BlockDeviceMappings[2].Ebs[1].VolumeType = "io1"
    /\ req.BlockDeviceMappings[2].Ebs[1].DeleteOnTermination

\* C24: a Create of a host whose name has no hyphen does not crash at
\* tagging: once it has passed the tagging step it has issued CreateTags.
C24_HyphenlessNameStillTagged ==
    (op = "Create" /\ IndexByte(cfg.MachineName, "-") < 0) =>
        /\ pc # "panic"
        /\ (pc \in {"createReturn", "idle"} /\ innerErr = Nil) => Issued("CreateTags")

\* the lifecycle call that has returned, if any
ReturnedFrom(name) == query.op = name /\ op = name /\ pc = "idle"

\* C25: a Start that has returned issued one StartInstances; it returned nil
\* only after a poll saw the instance Running, and else the error of the
\* request or the wait's timeout. A Stop, a Kill and a Restart issue one
\* request each (a stop without Force, a stop with Force, a reboot), return
\* what the request answered without polling, and leave the Driver's fields
\* as they were.
C25_StartWaitsOthersReturnAtOnce ==
    /\ [](ReturnedFrom("Start") =>
            /\ calls[1] = "StartInstances"
            /\ \A i \in 2..Len(calls) : calls[i] = "DescribeInstances"
            /\ (query.err = Nil) => (query.state = "Running" /\ Len(calls) = 2)
            /\ (query.err # Nil) =>
                  \/ query.err = ErrRequest("StartInstances") /\ Len(calls) = 1
                  \/ query.err = ErrWaitTimeout /\ Len(calls) = 2)
    /\ [](ReturnedFrom("Stop") =>
            calls = <<"StopInstances(Force=false)">> /\ query.err = query.descErr)
    /\ [](ReturnedFrom("Kill") =>
            calls = <<"StopInstances(Force=true)">> /\ query.err = query.descErr)
    /\ [](ReturnedFrom("Restart") =>
            calls = <<"RebootInstances">> /\ query.err = query.descErr)
    /\ [][(op' \in {"Stop", "Kill", "Restart"} /\ calls' # calls) =>
              (pc' = "idle" /\ d' = d)]_vars

\* a Start returned nil after its request and a poll that saw the instance Running
C25_Witness ==
    /\ ReturnedFrom("Start")
    /\ query.err = Nil
    /\ query.state = "Running"
    /\ calls = <<"StartInstances", "DescribeInstances">>

\* C26: two Drivers of one process share no variable that is written: the
\* package-level swarmPort is assigned by the operations of at most one of
\* them.
C26_DriversShareNoWrittenVariable ==
    Cardinality({i \in DOMAIN drivers : drivers[i].wroteSwarmPort}) <= 1

\* the step of innerCreate the i-th call of the log belongs to: 1 key import,
\* 2 security groups, 3 RunInstances, 4 wait for running, 5 AllocateAddress,
\* 6 AssociateAddress, 7 wait for the IP, 8 metadata options, 9 tagging
StepOfCall(i) ==
    LET after(name) == \E j \in 1..(i - 1) : calls[j] = name
    IN  CASE calls[i] = "ImportKeyPair" -> 1
          [] calls[i] = "RunInstances" -> 3
          [] calls[i] = "DescribeInstances" -> IF after("AssociateAddress") THEN 7 ELSE 4
          [] calls[i] = "AllocateAddress" -> 5
          [] calls[i] = "AssociateAddress" -> 6
          [] calls[i] = "ModifyInstanceMetadataOptions" -> 8
          [] calls[i] = "CreateTags" -> IF after("RunInstances") THEN 9 ELSE 2
          [] OTHER -> 2

\* a Create that has not begun to roll back
CreateGoingForward ==
    op = "Create" /\ ~createRet.done /\ (innerErr = Nil \/ pc = "createFailed")

\* the calls of a Create follow the order of its steps, RunInstances is sent
\* at most once for at most one instance, the metadata call needs the option,
\* and each identifier is recorded before the next call
CreateCallsInOrder ==
    /\ \A i, j \in DOMAIN calls : i < j => StepOfCall(i) <= StepOfCall(j)
    /\ Cardinality({i \in DOMAIN calls : calls[i] = "RunInstances"}) <= 1
    /\ Len(instances) <= 1
    /\ Issued("ModifyInstanceMetadataOptions") => cfg.Metadata
    /\ IssuedAny({"AllocateAddress", "AssociateAddress"}) => d.InstanceId # 0
    /\ Issued("AssociateAddress") => d.AllocationId # 0

\* C27: the remote calls of a Create follow the order key import, security
\* groups, RunInstances, wait for running, AllocateAddress, AssociateAddress,
\* wait for the IP, metadata options (only when configured), tagging; a call
\* of a step is issued only after every earlier step succeeded; each
\* identifier is recorded before the next call; RunInstances is issued once
\* for one instance.
C27_CreateStepsInOrderAfterSuccess ==
    CreateGoingForward =>
        /\ CreateCallsInOrder
        /\ Issued("RunInstances") => (sgRet.done /\ sgRet.isNil)
        /\ Issued("AllocateAddress") => runWait = "ok"
        /\ Issued("ModifyInstanceMetadataOptions") => d.IPAddress # Nil
        /\ (Issued("RunInstances") /\ Issued("CreateTags")
              /\ calls[Len(calls)] = "CreateTags") => d.IPAddress # Nil

IntraGroupRules ==
    {Perm(TCP, 2379, 2380, SelfSource), Perm(UDP, 4789, 4789, SelfSource),
     Perm(UDP, 8472, 8472, SelfSource), Perm(TCP, 10250, 10252, SelfSource),
     Perm(TCP, 10256, 10256, SelfSource), Perm(TCP, 9796, 9796, SelfSource),
     Perm(TCP, 179, 179, SelfSource)}
PublicClusterRules ==
    {Perm(TCP, 6443, 6443, AnySource), Perm(TCP, 30000, 32767, AnySource),
     Perm(UDP, 30000, 32767, AnySource), Perm(TCP, 80, 80, AnySource),
     Perm(TCP, 443, 443, AnySource)}
AlwaysRules == {Perm(TCP, 22, 22, AnySource), Perm(TCP, 2376, 2376, AnySource)}

\* the rules the configured extra open ports stand for
OpenPortRules ==
    {Perm(SplitPortProto(raw).proto, ParseInt(SplitPortProto(raw).port).val,
          ParseInt(SplitPortProto(raw).port).val, AnySource) :
        raw \in {r \in Range(cfg.OpenPorts) : ParseInt(SplitPortProto(r).port).ok}}

\* the rules of a set whose port/protocol key the group does not hold
Lacking(group, rules) ==
    {r \in rules : PortKey(r.FromPort, r.IpProtocol) \notin hasPortsInbound(group)}

\* C29: the rules submitted for a group hold SSH and the agent port, open to
\* any source, whenever the group lacks them; they hold the cluster rules the
\* group lacks when its name is the default one and it carries the management
\* tag, and for any other group nothing but SSH, the agent port and the extra
\* open ports; the rules among nodes (etcd, vxlan, flannel, kubelet range,
\* kube-proxy, node exporter, calico) name the group itself as their source.
C29_ClusterRulesOnlyForManagedDefaultGroup ==
    (pc = "sgAuthorize") =>
        LET perms == Range(sg.perms)
            managed == sg.group.GroupName = "rancher-nodes"
                          /\ "rancher-nodes" \in sg.group.Tags
        IN  /\ Lacking(sg.group, AlwaysRules) \subseteq perms
            /\ managed =>
                  /\ Lacking(sg.group, IntraGroupRules \cup PublicClusterRules)
                        \subseteq perms
                  /\ perms \subseteq AlwaysRules \cup IntraGroupRules
                                       \cup PublicClusterRules \cup OpenPortRules
            /\ ~managed => perms \subseteq AlwaysRules \cup OpenPortRules
            /\ \A r \in perms :
                  r.FromPort \in {2379, 4789, 8472, 10250, 10256, 9796, 179}
                      => r.Source = SelfSource

\* rules are being submitted for a default-named group without the tag, found
\* as another host created it, and they are SSH and the agent port only
C29_Witness ==
    /\ pc = "sgAuthorize"
    /\ sg.group.GroupName = "rancher-nodes"
    /\ sg.group.Tags = {}
    /\ Range(sg.perms) = AlwaysRules

\* rules are being submitted for the tagged default group, the rules among
\* nodes included
C29_WitnessManaged ==
    /\ pc = "sgAuthorize"
    /\ sg.group.GroupName = "rancher-nodes"
    /\ "rancher-nodes" \in sg.group.Tags
    /\ IntraGroupRules \subseteq Range(sg.perms)

\* C30: every Create that has been entered eventually returns, with nil or
\* with an error, whatever the provider answers.
C30_CreateEventuallyReturns ==
    (op = "Create" /\ pc = "createKeyPair") ~> createRet.done

====
